---- MODULE Spec2Model ----
(***************************************************************************)
(* Repository-content analysis and summary pipeline of portfolio-backend.  *)
(*                                                                         *)
(* Components modelled                                                     *)
(*   - SummaryStore      saveRepositorySummary / saveRepository            *)
(*                       (ai-summary-service.ts, repository-service.ts)    *)
(*   - BatchedContentFetcher  getMultipleFileContents and the batch loop   *)
(*                       of POST /github/repos/:owner/:repo/summary        *)
(*   - ref-scoped VCS calls with the main -> master fallback               *)
(*   - TechStackDetector analyzeTechStackFromFiles                         *)
(*   - SectionExtractor  the parse loop of                                 *)
(*                       generateEnhancedRepositorySummary + processSection*)
(*   - the analysis run  POST /github/repos/:owner/:repo/summary           *)
(*                                                                         *)
(* Each component has its own specification over the shared variables; the *)
(* variables of the other components stay at their idle values.            *)
(***************************************************************************)
EXTENDS Integers, Sequences, FiniteSets, TLC

VARIABLES
    \* ---- persistence (Supabase tables) ----
    repositories,          \* rows of table "repositories"
    repository_summaries,  \* rows of table "repository_summaries"
    now,                   \* logical clock behind new Date() / NOW()
    upserts,               \* history: key -> drafts of the successful upserts, in order
    \* ---- saveRepositorySummary invocations ----
    call,
    \* ---- BatchedContentFetcher ----
    variant,               \* "service": getMultipleFileContents, "route": summary route loop
    filePaths,             \* the input path list
    maxFiles,              \* the count cap (service variant)
    fpc,                   \* position in the loop
    i,                     \* loop variable: offset (service) / batch index (route)
    inFlight,              \* paths whose fetch is issued and not yet resolved
    batchResults,          \* route: what each promise of the batch resolved to
    results,               \* results / importantFiles: path -> entry
    resultKeys,            \* the keys of that object, in insertion order
    responses,             \* history: path -> response the VCS gave
    issued,                \* history: batches issued so far
    delays,                \* history: post-batch delays elapsed so far
    \* ---- ref-scoped VCS calls ----
    world,                 \* what the VCS answers for each ref
    vcall,                 \* one ref-scoped call: position, arguments, requests, result
    \* ---- TechStackDetector ----
    files,                 \* the input: entries [path, content] in key order
    fileIdx,               \* position of Object.entries(files).forEach
    techStack,             \* the accumulator
    dpc,                   \* "scan", "returned"
    \* ---- SectionExtractor ----
    aiText,                \* content: the completion text
    lines,                 \* its trimmed non-empty lines
    techStackFromFiles,    \* the detected profile
    commitMessages,        \* the joined commit messages
    prDescriptions,        \* the joined pull-request descriptions
    lineIdx,               \* position of `for (const line of lines)`
    currentSection,
    sectionContent,
    extracted,             \* summary: the object being filled
    processed,             \* history: sections handed to processSection, in order
    xpc,                   \* "parse", "returned"
    \* ---- the analysis run ----
    run,                   \* position of the route handler, its locals, and the
                           \* store as it was when the request arrived (history)
    \* ---- the repository tree ----
    tree,                  \* the entries [type, path] getRepositoryTree returned
    tpc,                   \* "languages", "filter", "fetch", "structure", "done"
    branchLanguages,       \* what analyzeBranchLanguages returned
    relevantFiles,         \* what the filter of the summary route kept
    importantFiles,        \* the entries whose content the route hands to the analysis
    structure              \* what analyzeProjectStructure collected

storeVars == <<repositories, repository_summaries, now, upserts, call>>

fetchVars ==
    <<variant, filePaths, maxFiles, fpc, i, inFlight, batchResults, results,
      resultKeys, responses, issued, delays>>

vcsVars == <<world, vcall>>

detectVars == <<files, fileIdx, techStack, dpc>>

extractVars ==
    <<aiText, lines, techStackFromFiles, commitMessages, prDescriptions, lineIdx,
      currentSection, sectionContent, extracted, processed, xpc>>

treeVars == <<tree, tpc, branchLanguages, relevantFiles, importantFiles, structure>>

vars == <<storeVars, fetchVars, vcsVars, detectVars, extractVars, run, treeVars>>

\* what the actions of one component leave alone
notStore == <<fetchVars, vcsVars, detectVars, extractVars, run, treeVars>>
notFetch == <<storeVars, vcsVars, detectVars, extractVars, run, treeVars>>
notVcs == <<storeVars, fetchVars, detectVars, extractVars, run, treeVars>>
notDetect == <<storeVars, fetchVars, vcsVars, extractVars, run, treeVars>>
notExtract == <<storeVars, fetchVars, vcsVars, detectVars, run, treeVars>>
notRun == <<fetchVars, vcsVars, detectVars, extractVars, treeVars>>
notTree == <<storeVars, fetchVars, vcsVars, detectVars, extractVars, run>>

----------------------------------------------------------------------------
(* Bounds of the model *)

\* the longest completion text, in lines
MaxLines == 3

\* the logical clock stops ticking here (no write once it is reached)
MaxClock == 2
\* longest input path list of the fetcher
MaxPaths == 5
\* batchSize of getMultipleFileContents (8 in the code) and of the summary
\* route (15 in the code), scaled down: the loops only compare batchSize with
\* offsets into the list, so the scaled loop takes the same branches on a
\* list scaled alike
ServiceBatchSize == 2
RouteBatchSize == 3

\* entries of a tree built from the seed items
MaxTreeItems == 3

----------------------------------------------------------------------------
(* SummaryStore *)

None == "<none>"

\* repository ids handed to saveRepositorySummary: two are rows of
\* "repositories", one is not
RegisteredIds == {"r1", "r2"}

RepositoryIds == RegisteredIds \cup {"r9"}

BranchNames == {"main", "dev"}

Keys == RepositoryIds \X BranchNames

EmptyTechStack ==
    [frontend |-> <<>>, backend |-> <<>>, database |-> <<>>,
     devops |-> <<>>, testing |-> <<>>, other |-> <<>>]

\* RepositorySummary values passed as the `summary` argument
DraftA ==
    [branch_name |-> "main",
     project_intro |-> "intro A",
     tech_stack |-> [EmptyTechStack EXCEPT !.frontend = <<"React">>],
     refactoring_history |-> "refactoring A",
     collaboration_flow |-> "collaboration A",
     resume_bullets |-> <<[title |-> "t1", content |-> "c1"]>>]

DraftB ==
    [branch_name |-> "main",
     project_intro |-> "intro B",
     tech_stack |-> [EmptyTechStack EXCEPT !.backend = <<"Express.js">>],
     refactoring_history |-> "",
     collaboration_flow |-> "collaboration B",
     resume_bullets |-> <<>>]

Drafts == {DraftA, DraftB}

\* concurrent invocations of saveRepositorySummary, each by an analysis run
\* that built its own draft
Callers == {"run1", "run2"}

DraftOf(c) == IF c = "run1" THEN DraftA ELSE DraftB

Metrics ==
    {[commits_analyzed |-> 1, prs_analyzed |-> 0, files_analyzed |-> 2]}

\* `s || ""` on a string: the only falsy string is the empty one
OrEmpty(s) == IF s = "" THEN "" ELSE s

\* the object written by the upsert (dataToSave)
dataToSave(repositoryId, branchName, summary, performanceMetrics, t) ==
    [repository_id |-> repositoryId,
     branch_name |-> branchName,
     project_intro |-> OrEmpty(summary.project_intro),
     tech_stack |-> summary.tech_stack,
     refactoring_history |-> OrEmpty(summary.refactoring_history),
     collaboration_flow |-> OrEmpty(summary.collaboration_flow),
     resume_bullets |-> summary.resume_bullets,
     performance_metrics |-> performanceMetrics,
     updated_at |-> t]

\* the conflict target without the branch column
ConflictKeyRepositoryOnly(row) == <<row.repository_id>>

\* columns of a row that the conflict target names
ConflictKey(row) == <<row.repository_id, row.branch_name>>

\* gen_random_uuid(): an id no row of the table carries
FreshId(rows) == Cardinality(rows) + 1

\* UpsertRows whose update leaves the stored refactoring_history in place
UpsertRowsKeepRefactoringHistory(rows, data, t) ==
    IF \E r \in rows : ConflictKey(r) = ConflictKey(data)
    THEN {IF ConflictKey(r) = ConflictKey(data)
          THEN [data EXCEPT !.updated_at = t,
                            !.refactoring_history = r.refactoring_history]
                  @@ [id |-> r.id, created_at |-> r.created_at]
          ELSE r : r \in rows}
    ELSE rows \cup {data @@ [id |-> FreshId(rows), created_at |-> t]}

\* mutant of UpsertRows: a plain insert, no conflict target
UpsertRowsInsertOnly(rows, data, t) ==
    rows \cup {data @@ [id |-> FreshId(rows), created_at |-> t]}

\* .upsert(data, { onConflict: "repository_id,branch_name" }): the row with
\* the same conflict key is overwritten in place (id and created_at kept),
\* otherwise a row is inserted
UpsertRows(rows, data, t) ==
    IF \E r \in rows : ConflictKey(r) = ConflictKey(data)
    THEN {IF ConflictKey(r) = ConflictKey(data)
          THEN [data EXCEPT !.updated_at = t] @@ [id |-> r.id, created_at |-> r.created_at]
          ELSE r : r \in rows}
    ELSE rows \cup {data @@ [id |-> FreshId(rows), created_at |-> t]}

\* the id returned by .select("id").single() after the upsert
UpsertedId(rows, data) ==
    (CHOOSE r \in rows : ConflictKey(r) = ConflictKey(data)).id

\* .from("repositories").select("id").eq("id", repositoryId).single():
\* an error unless exactly one row matches
repoCheckError(repos, repositoryId) ==
    Cardinality({r \in repos : r.id = repositoryId}) # 1

\* the function's catch block: whatever was raised inside the try is logged
\* and replaced by one fixed error
CatchRethrow(raised) == "Failed to save repository summary"

IdleCall == [pc |-> "idle"]

\* saveRepositorySummary, up to the first await: arguments bound, dataToSave
\* built, the repository check issued
SaveBegin(c) ==
    /\ call[c].pc = "idle"
    /\ \E rid \in RepositoryIds, b \in BranchNames, m \in Metrics :
          call' = [call EXCEPT ![c] =
                     [pc |-> "repoCheck", repositoryId |-> rid, branchName |-> b,
                      summary |-> DraftOf(c),
                      data |-> dataToSave(rid, b, DraftOf(c), m, now)]]
    /\ UNCHANGED <<repositories, repository_summaries, now, upserts>>
    /\ UNCHANGED notStore

\* the repository check resolves; on an error the inner throw
\* ("Repository not found: <id>") lands in the function's own catch, which
\* throws Error("Failed to save repository summary")
SaveRepoCheck(c) ==
    /\ call[c].pc = "repoCheck"
    /\ \E dbOk \in BOOLEAN :
          IF ~dbOk \/ repoCheckError(repositories, call[c].repositoryId)
          THEN call' = [call EXCEPT ![c] =
                          [pc |-> "thrown", repositoryId |-> @.repositoryId,
                           branchName |-> @.branchName,
                           error |-> CatchRethrow("Repository not found")]]
          ELSE call' = [call EXCEPT ![c].pc = "upsert"]
    /\ UNCHANGED <<repositories, repository_summaries, now, upserts>>
    /\ UNCHANGED notStore

\* the upsert resolves: with an error the function throws (again through its
\* catch), otherwise the row is written and its id returned
SaveUpsert(c) ==
    /\ call[c].pc = "upsert"
    /\ \E dbOk \in BOOLEAN :
          IF ~dbOk
          THEN /\ call' = [call EXCEPT ![c] =
                             [pc |-> "thrown", repositoryId |-> @.repositoryId,
                              branchName |-> @.branchName,
                              error |->
                                 CatchRethrow("Failed to save repository summary: db")]]
               /\ UNCHANGED <<repository_summaries, now, upserts>>
          ELSE /\ now < MaxClock
               /\ repository_summaries' =
                     UpsertRows(repository_summaries, call[c].data, now)
               /\ now' = now + 1
               /\ upserts' =
                     [upserts EXCEPT
                        ![<<call[c].repositoryId, call[c].branchName>>] =
                            Append(@, call[c].summary)]
               /\ call' = [call EXCEPT ![c] =
                             [pc |-> "returned", repositoryId |-> @.repositoryId,
                              branchName |-> @.branchName,
                              id |-> UpsertedId(repository_summaries', call[c].data),
                              \* history: the clock when the call began and
                              \* when its upsert executed
                              startedAt |-> @.data.updated_at,
                              upsertedAt |-> now]]
    /\ UNCHANGED repositories
    /\ UNCHANGED notStore

\* the caller is done with the outcome and may call again
SaveDone(c) ==
    /\ call[c].pc \in {"returned", "thrown"}
    /\ call' = [call EXCEPT ![c] = IdleCall]
    /\ UNCHANGED <<repositories, repository_summaries, now, upserts>>
    /\ UNCHANGED notStore

RegistryRow(id) ==
    [id |-> id, user_id |-> "u1", github_repo_id |-> id, branch_name |-> "main",
     updated_at |-> 0]

StoreInit ==
    /\ repositories = {RegistryRow(id) : id \in RegisteredIds}
    /\ repository_summaries = {}
    /\ now = 0
    /\ upserts = [k \in Keys |-> <<>>]
    /\ call = [c \in Callers |-> IdleCall]

StoreNext ==
    \E c \in Callers :
        \/ SaveBegin(c)
        \/ SaveRepoCheck(c)
        \/ SaveUpsert(c)
        \/ SaveDone(c)

----------------------------------------------------------------------------
(* BatchedContentFetcher *)

Min(a, b) == IF a < b THEN a ELSE b

\* Array.prototype.slice(from, to) with 0-based bounds, on a sequence
Slice(list, from, to) ==
    SubSeq(list, Min(from, Len(list)) + 1, Min(to, Len(list)))

Range(f) == {f[x] : x \in DOMAIN f}

\* paths of the tree; a path is kept as its name and its extension
AllPaths ==
    <<[base |-> "src/a", ext |-> "ts"], [base |-> "src/b", ext |-> "py"],
      [base |-> "README", ext |-> "md"], [base |-> "src/c", ext |-> "ts"],
      [base |-> "img/logo", ext |-> "bin"], [base |-> "src/d", ext |-> "go"],
      [base |-> "src/e", ext |-> "rs"]>>

\* size ceilings of the two fetchers
ServiceSizeCeiling == 1048576
RouteSizeCeiling == 200000

SizeCeiling(v) == IF v = "service" THEN ServiceSizeCeiling ELSE RouteSizeCeiling

\* what the VCS may answer to one contents request
Responses(v) ==
    {[ok |-> FALSE]} \cup
    {[ok |-> TRUE, type |-> "dir", size |-> 0]} \cup
    {[ok |-> TRUE, type |-> "file", size |-> n] :
        n \in {0, 1, SizeCeiling(v), SizeCeiling(v) + 1}}

\* the decoded text of a file response: empty exactly for an empty file
EmptyContent == [of |-> [base |-> "", ext |-> ""], length |-> 0]

ContentOf(path, resp) ==
    IF resp.type = "file" /\ resp.size > 0
    THEN [of |-> path, length |-> resp.size]
    ELSE EmptyContent

Null == [null |-> TRUE]

getLanguageFromExtension(path) ==
    CASE path.ext \in {"ts", "tsx"} -> "TypeScript"
      [] path.ext = "py" -> "Python"
      [] path.ext = "md" -> "Markdown"
      [] path.ext = "go" -> "Go"
      [] path.ext = "rs" -> "Rust"
      [] OTHER -> "Unknown"

\* mutant of ServiceGetFileContent: the request error is not caught
ServiceGetFileContentNoCatch(path, resp) ==
    IF ~resp.ok THEN [throw |-> TRUE]
    ELSE IF resp.size > ServiceSizeCeiling THEN [throw |-> FALSE, value |-> Null]
    ELSE IF ContentOf(path, resp) = EmptyContent \/ resp.type # "file"
         THEN [throw |-> FALSE, value |-> Null]
    ELSE [throw |-> FALSE,
          value |-> [content |-> ContentOf(path, resp), size |-> resp.size]]

\* repository-service getFileContent: null for a failed request, a file over
\* 1 MB, an entry without content or one that is not a file
ServiceGetFileContent(path, resp) ==
    IF ~resp.ok THEN [throw |-> FALSE, value |-> Null]
    ELSE IF resp.size > ServiceSizeCeiling THEN [throw |-> FALSE, value |-> Null]
    ELSE IF ContentOf(path, resp) = EmptyContent \/ resp.type # "file"
         THEN [throw |-> FALSE, value |-> Null]
    ELSE [throw |-> FALSE,
          value |-> [content |-> ContentOf(path, resp), size |-> resp.size]]

\* githubService.getFileContent of the route: "" for a failed request
RouteGetFileContent(path, resp) ==
    IF ~resp.ok THEN EmptyContent ELSE ContentOf(path, resp)

\* the route's per-file promise: { path, content } under 200000 characters,
\* null otherwise
RouteFileResult(path, resp) ==
    LET content == RouteGetFileContent(path, resp) IN
    IF content # EmptyContent /\ content.length < RouteSizeCeiling
    THEN [path |-> path, content |-> content]
    ELSE Null

batchSize == IF variant = "service" THEN ServiceBatchSize ELSE RouteBatchSize

\* mutant of limitedPaths: the list is not cut
limitedPathsWhole == filePaths

\* filePaths.slice(0, maxFiles); the route fetches every relevant file
limitedPaths ==
    IF variant = "service" THEN Slice(filePaths, 0, maxFiles) ELSE filePaths

\* mutant of BatchAt: slice(i) without the end bound
BatchAtNoEnd(list, from, size) == Slice(list, from, Len(list))

\* list.slice(i, i + batchSize)
BatchAt(list, from, size) == Slice(list, from, from + size)

\* the route's `batches` array
batches ==
    [k \in 1..((Len(limitedPaths) + batchSize - 1) \div batchSize) |->
        BatchAt(limitedPaths, (k - 1) * batchSize, batchSize)]

\* the loop condition
LoopCond ==
    IF variant = "service" THEN i < Len(limitedPaths) ELSE i < Len(batches)

batch ==
    IF variant = "service" THEN BatchAt(limitedPaths, i, batchSize)
    ELSE batches[i + 1]

\* mutant of DelayDue: the delay is dropped
DelayDueNever == FALSE

\* the guard of the post-batch delay
DelayDue ==
    IF variant = "service" THEN i + batchSize < Len(limitedPaths)
    ELSE i < Len(batches) - 1

NextI == IF variant = "service" THEN i + batchSize ELSE i + 1

\* batch.map(async ...): every fetch of the batch is issued before the
\* loop body reaches its await
IssueBatch ==
    /\ fpc = "loop"
    /\ LoopCond
    /\ inFlight' = Range(batch)
    /\ batchResults' = <<>>
    /\ issued' = issued + 1
    /\ fpc' = "await"
    /\ UNCHANGED <<variant, filePaths, maxFiles, i, results, resultKeys, responses, delays>>
    /\ UNCHANGED notFetch

\* one fetch of the batch resolves and its continuation runs
FetchResolve(path, resp) ==
    /\ fpc = "await"
    /\ path \in inFlight
    /\ inFlight' = inFlight \ {path}
    /\ responses' = (path :> resp) @@ responses
    /\ IF variant = "service"
       THEN LET fileContent == ServiceGetFileContent(path, resp) IN
            IF fileContent.throw
            THEN /\ fpc' = "failed"
                 /\ UNCHANGED <<results, resultKeys, batchResults>>
            ELSE /\ fpc' = fpc
                 /\ results' =
                       IF fileContent.value # Null
                       THEN (path :>
                               [content |-> fileContent.value.content,
                                size |-> fileContent.value.size,
                                language |-> getLanguageFromExtension(path)])
                            @@ results
                       ELSE results
                 /\ resultKeys' =
                       IF fileContent.value # Null THEN Append(resultKeys, path)
                       ELSE resultKeys
                 /\ UNCHANGED batchResults
       ELSE /\ batchResults' = (path :> RouteFileResult(path, resp)) @@ batchResults
            /\ UNCHANGED <<fpc, results, resultKeys>>
    /\ UNCHANGED <<variant, filePaths, maxFiles, i, issued, delays>>
    /\ UNCHANGED notFetch

\* mutant of AssignBatch: the copying stops at the first null result
AssignBatchUntilFirstNull(res, paths) ==
    LET nulls == {k \in 1..Len(paths) : batchResults[paths[k]] = Null}
        stop == IF nulls = {} THEN Len(paths) + 1
                ELSE CHOOSE k \in nulls : \A m \in nulls : k <= m
        kept == Range(SubSeq(paths, 1, stop - 1))
    IN [q \in DOMAIN res \cup kept |->
           IF q \in kept THEN batchResults[q].content ELSE res[q]]

\* the route's batchResults.forEach, in the order of the batch
AssignBatch(res, paths) ==
    [p \in DOMAIN res \cup {q \in Range(paths) : batchResults[q] # Null} |->
        IF p \in Range(paths) /\ batchResults[p] # Null
        THEN batchResults[p].content
        ELSE res[p]]

\* the keys that forEach adds, in the order of the batch (Promise.all keeps
\* the order of the promises); a key that exists keeps its place
AssignKeys(keys, paths) ==
    LET New(q) == batchResults[q] # Null /\ q \notin Range(keys)
    IN keys \o SelectSeq(paths, New)

\* Promise.all resolves: the route copies the batch's results, then the
\* loop either starts the delay or goes on
BatchResolved ==
    /\ fpc = "await"
    /\ inFlight = {}
    /\ results' =
          IF variant = "route" THEN AssignBatch(results, batch) ELSE results
    /\ resultKeys' =
          IF variant = "route" THEN AssignKeys(resultKeys, batch) ELSE resultKeys
    /\ IF DelayDue
       THEN /\ fpc' = "delay"
            /\ i' = i
       ELSE /\ fpc' = "loop"
            /\ i' = NextI
    /\ UNCHANGED <<variant, filePaths, maxFiles, inFlight, batchResults,
                   responses, issued, delays>>
    /\ UNCHANGED notFetch

\* the setTimeout of the delay fires
DelayElapsed ==
    /\ fpc = "delay"
    /\ fpc' = "loop"
    /\ i' = NextI
    /\ delays' = delays + 1
    /\ UNCHANGED <<variant, filePaths, maxFiles, inFlight, batchResults,
                   results, resultKeys, responses, issued>>
    /\ UNCHANGED notFetch

\* the loop is over: the map is returned
FetchReturn ==
    /\ fpc = "loop"
    /\ ~LoopCond
    /\ fpc' = "done"
    /\ UNCHANGED <<variant, filePaths, maxFiles, i, inFlight, batchResults,
                   results, resultKeys, responses, issued, delays>>
    /\ UNCHANGED notFetch

FetchIdle ==
    /\ variant = "service"
    /\ filePaths = <<>>
    /\ maxFiles = 0
    /\ fpc = "done"
    /\ i = 0
    /\ inFlight = {}
    /\ batchResults = <<>>
    /\ results = <<>>
    /\ resultKeys = <<>>
    /\ responses = <<>>
    /\ issued = 0
    /\ delays = 0

FetchInit ==
    /\ variant \in {"service", "route"}
    /\ \E n \in 0..MaxPaths : filePaths = SubSeq(AllPaths, 1, n)
    \* the maximum file count of the call; the route's loop has no such
    \* parameter and reads it nowhere
    /\ maxFiles \in {1, 3, 100}
    /\ fpc = "loop"
    /\ i = 0
    /\ inFlight = {}
    /\ batchResults = <<>>
    /\ results = <<>>
    /\ resultKeys = <<>>
    /\ responses = <<>>
    /\ issued = 0
    /\ delays = 0

FetchNext ==
    \/ IssueBatch
    \/ \E path \in inFlight : \E resp \in Responses(variant) : FetchResolve(path, resp)
    \/ BatchResolved
    \/ DelayElapsed
    \/ FetchReturn

----------------------------------------------------------------------------
(* Ref-scoped VCS calls: README, directory contents, commits, tree *)

Refs == {"main", "master", "dev"}

\* a request succeeds, is answered with an error status (404 not found,
\* 403 forbidden / rate limit), or fails without an answer (network)
Outcomes == {"ok", "notfound", "forbidden", "network"}

\* the calls with a fallback to "master"
FallbackKinds == {"readme", "contents", "commits", "tree"}

\* the two getFileContent functions: "file" is the one of the summary route
\* (returns "" on failure), "fileContent" the one of getMultipleFileContents
\* (returns null on failure)
FileKinds == {"file", "fileContent"}

CallKinds == FallbackKinds \cup FileKinds

\* the payload of a successful request
DataOf(kind, ref) == [of |-> kind, ref |-> ref]

\* mutant of RetriesOn: no fallback request
RetriesOnNever(kind, ref, outcome) == FALSE

\* whether a failed first request is followed by a request for "master":
\* the axios callers catch every failure and test the ref only; the tree
\* call retries inside `if (!response.ok)`, which a rejected fetch never
\* reaches
RetriesOn(kind, ref, outcome) ==
    IF kind \in FileKinds THEN FALSE
    ELSE IF kind = "tree" THEN ref = "main" /\ outcome # "network"
    ELSE ref = "main"

\* the outcome of a call whose last request failed: the README is replaced
\* by the empty string, the other calls throw
FinalFailure(kind) ==
    CASE kind = "readme" -> [status |-> "ok", data |-> ""]
      [] kind = "contents" ->
            [status |-> "error", message |-> "Failed to fetch repository contents"]
      [] kind = "commits" ->
            [status |-> "error", message |-> "Failed to fetch repository commits"]
      [] kind = "tree" ->
            [status |-> "error", message |-> "Failed to fetch repository tree"]
      [] kind = "file" -> [status |-> "ok", data |-> ""]
      [] kind = "fileContent" -> [status |-> "ok", data |-> Null]

IdleVcall == [pc |-> "idle"]

\* the call is made and its first request issued
VcsCall(kind, ref) ==
    /\ vcall.pc = "idle"
    /\ vcall' = [pc |-> "first", kind |-> kind, ref |-> ref, requests |-> <<ref>>]
    /\ UNCHANGED world
    /\ UNCHANGED notVcs

\* the first request is answered
VcsFirstResponse ==
    /\ vcall.pc = "first"
    /\ LET outcome == world[vcall.ref] IN
       IF outcome = "ok"
       THEN vcall' = [vcall EXCEPT !.pc = "done"] @@
                     [result |-> [status |-> "ok",
                                  data |-> DataOf(vcall.kind, vcall.ref)]]
       ELSE IF RetriesOn(vcall.kind, vcall.ref, outcome)
       THEN vcall' = [vcall EXCEPT !.pc = "fallback",
                                   !.requests = Append(@, "master")]
       ELSE vcall' = [vcall EXCEPT !.pc = "done"] @@
                     [result |-> FinalFailure(vcall.kind)]
    /\ UNCHANGED world
    /\ UNCHANGED notVcs

\* the request for "master" is answered
VcsFallbackResponse ==
    /\ vcall.pc = "fallback"
    /\ IF world["master"] = "ok"
       THEN vcall' = [vcall EXCEPT !.pc = "done"] @@
                     [result |-> [status |-> "ok",
                                  data |-> DataOf(vcall.kind, "master")]]
       ELSE vcall' = [vcall EXCEPT !.pc = "done"] @@
                     [result |-> FinalFailure(vcall.kind)]
    /\ UNCHANGED world
    /\ UNCHANGED notVcs

VcsIdle ==
    /\ world = [r \in Refs |-> "ok"]
    /\ vcall = IdleVcall

VcsInit ==
    /\ world \in [Refs -> Outcomes]
    /\ vcall = IdleVcall

VcsNext ==
    \/ \E kind \in CallKinds, ref \in Refs : VcsCall(kind, ref)
    \/ VcsFirstResponse
    \/ VcsFallbackResponse

----------------------------------------------------------------------------
(* TechStackDetector: analyzeTechStackFromFiles *)

Categories == {"frontend", "backend", "database", "devops", "testing"}

EmptyProfile ==
    [detected |-> <<>>, frontend |-> <<>>, backend |-> <<>>,
     database |-> <<>>, devops |-> <<>>, testing |-> <<>>]

\* String.prototype.includes for the strings of the model: the marker
\* substrings of the rules that each string contains
SubstringsOf(str) ==
    CASE str = "package.json" -> {"package.json"}
      [] str = "client/package.json" -> {"package.json"}
      [] str = "requirements.txt" -> {"requirements.txt"}
      [] str = "Dockerfile" -> {"Dockerfile"}
      [] str = "docker-compose.yml" -> {"docker-compose"}
      [] str = "go.mod" -> {"go.mod"}
      [] str = "Cargo.toml" -> {"Cargo.toml"}
      [] str = "react" -> {"react"}
      [] str = "react-dom" -> {"react", "react-dom"}
      [] str = "express" -> {"express"}
      [] str = "prisma" -> {"prisma"}
      [] str = "mongoose" -> {"mongoose"}
      [] str = "typescript" -> {"typescript"}
      [] str = "django==4.2" -> {"django"}
      [] str = "flask==2.3" -> {"flask"}
      [] str = "FROM node:18" -> {"FROM node"}
      [] str = "FROM nginx:alpine" -> {"FROM nginx"}
      [] str = "image: postgres:15" -> {"postgres"}
      [] str = "image: redis:7" -> {"redis"}
      [] OTHER -> {}

includes(str, sub) == sub \in SubstringsOf(str)

\* one `if (...) { techStack.<category>.push(entry); detected.push(name) }`:
\* the rule fires when the string includes one of anyOf and none of noneOf
Rule(anyOf, noneOf, category, entry, name) ==
    [anyOf |-> anyOf, noneOf |-> noneOf, category |-> category,
     entry |-> entry, name |-> name]

\* the rules applied to each dependency name, in source order
DependencyRules ==
    << Rule({"react"}, {"react-dom"}, "frontend", "React", "React"),
       Rule({"vue"}, {}, "frontend", "Vue.js", "Vue.js"),
       Rule({"angular"}, {}, "frontend", "Angular", "Angular"),
       Rule({"next"}, {}, "frontend", "Next.js", "Next.js"),
       Rule({"nuxt"}, {}, "frontend", "Nuxt.js", "Nuxt.js"),
       Rule({"tailwind"}, {}, "frontend", "Tailwind CSS", "Tailwind CSS"),
       Rule({"express"}, {}, "backend", "Express.js", "Express.js"),
       Rule({"fastify"}, {}, "backend", "Fastify", "Fastify"),
       Rule({"koa"}, {}, "backend", "Koa.js", "Koa.js"),
       Rule({"nestjs", "@nestjs"}, {}, "backend", "NestJS", "NestJS"),
       Rule({"prisma"}, {}, "database", "Prisma ORM", "Prisma"),
       Rule({"typeorm"}, {}, "database", "TypeORM", "TypeORM"),
       Rule({"mongoose"}, {}, "database", "MongoDB (Mongoose)", "MongoDB"),
       Rule({"pg", "postgres"}, {}, "database", "PostgreSQL", "PostgreSQL"),
       Rule({"mysql"}, {}, "database", "MySQL", "MySQL"),
       Rule({"supabase"}, {}, "database", "Supabase", "Supabase"),
       Rule({"typescript"}, {}, "none", "TypeScript", "TypeScript"),
       Rule({"jest"}, {}, "testing", "Jest", "Jest"),
       Rule({"cypress"}, {}, "testing", "Cypress", "Cypress"),
       Rule({"vitest"}, {}, "testing", "Vitest", "Vitest") >>

\* the rules applied to each line of requirements.txt
RequirementRules ==
    << Rule({"django"}, {}, "backend", "Django", "Django"),
       Rule({"flask"}, {}, "backend", "Flask", "Flask"),
       Rule({"fastapi"}, {}, "backend", "FastAPI", "FastAPI"),
       Rule({"pandas"}, {}, "backend", "Pandas", "Pandas"),
       Rule({"numpy"}, {}, "backend", "NumPy", "NumPy") >>

\* the rules applied to the content of a Dockerfile
DockerfileRules ==
    << Rule({"FROM node"}, {}, "backend", "Node.js", "Node.js"),
       Rule({"FROM python"}, {}, "backend", "Python", "Python"),
       Rule({"FROM nginx"}, {}, "devops", "Nginx", "Nginx") >>

\* the rules applied to the content of a docker-compose file
ComposeRules ==
    << Rule({"postgres"}, {}, "database", "PostgreSQL", "PostgreSQL"),
       Rule({"redis"}, {}, "database", "Redis", "Redis"),
       Rule({"mongodb"}, {}, "database", "MongoDB", "MongoDB") >>

\* techStack.<category>.push(entry); techStack.detected.push(name)
Push(ts, category, entry, name) ==
    IF category = "none"
    THEN [ts EXCEPT !.detected = Append(@, name)]
    ELSE [ts EXCEPT ![category] = Append(@, entry),
                    !.detected = Append(@, name)]

Fires(rule, found) ==
    /\ rule.anyOf \cap found # {}
    /\ rule.noneOf \cap found = {}

\* the chain of ifs of a rule list applied to the markers found in a string:
\* the rules that fire push in source order
ApplyRules(ts, rules, found) ==
    LET Fired(rule) == Fires(rule, found)
        fired == SelectSeq(rules, Fired)
    IN [c \in DOMAIN ts |->
            IF c = "detected"
            THEN ts[c] \o [k \in 1..Len(fired) |-> fired[k].name]
            ELSE LET OfC(rule) == Fires(rule, found) /\ rule.category = c
                     firedC == SelectSeq(rules, OfC)
                 IN ts[c] \o [k \in 1..Len(firedC) |-> firedC[k].entry]]

\* strs.forEach(str => rules)
RECURSIVE ForEachString(_, _, _, _)
ForEachString(ts, rules, strs, k) ==
    IF k > Len(strs) THEN ts
    ELSE ForEachString(ApplyRules(ts, rules, SubstringsOf(strs[k])),
                       rules, strs, k + 1)

\* the markers found anywhere in a text
FoundIn(content) ==
    UNION {SubstringsOf(content.lines[k]) : k \in 1..Len(content.lines)}

\* Object.keys({...dependencies, ...devDependencies})
RECURSIVE WithoutKeys(_, _)
WithoutKeys(keys, present) ==
    IF keys = <<>> THEN <<>>
    ELSE IF Head(keys) \in present THEN WithoutKeys(Tail(keys), present)
    ELSE <<Head(keys)>> \o WithoutKeys(Tail(keys), present)

DepKeys(packageJson) ==
    packageJson.dependencies \o
    WithoutKeys(packageJson.devDependencies,
                {packageJson.dependencies[k] :
                    k \in 1..Len(packageJson.dependencies)})

\* JSON.parse(content) throws, or reading .dependencies of the value does
ParseThrows(file) ==
    includes(file.path, "package.json") /\ file.content.kind # "json"

\* the package.json block with the chain of ifs applied once to the whole
\* list of dependency names instead of to each name
PackageBlockWholeList(ts, file) ==
    IF includes(file.path, "package.json")
    THEN ApplyRules(ts, DependencyRules,
                    UNION {SubstringsOf(DepKeys(file.content)[k]) :
                              k \in DOMAIN DepKeys(file.content)})
    ELSE ts

\* the body of one forEach iteration, block by block
PackageBlock(ts, file) ==
    IF includes(file.path, "package.json")
    THEN ForEachString(ts, DependencyRules, DepKeys(file.content), 1)
    ELSE ts

RequirementsBlock(ts, file) ==
    IF includes(file.path, "requirements.txt")
    THEN ForEachString(ts, RequirementRules, file.content.lines, 1)
    ELSE ts

DockerfileBlock(ts, file) ==
    IF includes(file.path, "Dockerfile")
    THEN Push(ApplyRules(ts, DockerfileRules, FoundIn(file.content)),
              "devops", "Docker", "Docker")
    ELSE ts

ComposeBlock(ts, file) ==
    IF includes(file.path, "docker-compose")
    THEN ApplyRules(Push(ts, "devops", "Docker Compose", "Docker Compose"),
                    ComposeRules, FoundIn(file.content))
    ELSE ts

GoModBlock(ts, file) ==
    IF includes(file.path, "go.mod") THEN Push(ts, "backend", "Go", "Go") ELSE ts

CargoBlock(ts, file) ==
    IF includes(file.path, "Cargo.toml")
    THEN Push(ts, "backend", "Rust", "Rust")
    ELSE ts

EntryBody(ts, file) ==
    CargoBlock(
      GoModBlock(
        ComposeBlock(
          DockerfileBlock(
            RequirementsBlock(
              PackageBlock(ts, file), file), file), file), file), file)

\* mutant of TryEntry: the throw discards what the earlier entries gave
TryEntryResetsOnThrow(ts, file) ==
    IF ParseThrows(file) THEN EmptyProfile ELSE EntryBody(ts, file)

\* try { body } catch { }: JSON.parse is the first statement that can throw
\* and nothing has been pushed for the entry before it
TryEntry(ts, file) == IF ParseThrows(file) THEN ts ELSE EntryBody(ts, file)

\* [...new Set(list)]: first occurrences, in order
RECURSIVE Dedup(_)
Dedup(list) ==
    IF list = <<>> THEN <<>>
    ELSE LET init == Dedup(SubSeq(list, 1, Len(list) - 1))
             last == list[Len(list)]
         IN IF \E k \in 1..Len(init) : init[k] = last
            THEN init
            ELSE Append(init, last)

DedupAll(ts) == [c \in DOMAIN ts |-> Dedup(ts[c])]

RECURSIVE ScanFrom(_, _, _)
ScanFrom(ts, fs, k) ==
    IF k > Len(fs) THEN ts ELSE ScanFrom(TryEntry(ts, fs[k]), fs, k + 1)

\* the whole function, for the callers that use its result
analyzeTechStackFromFiles(fs) == DedupAll(ScanFrom(EmptyProfile, fs, 1))

\* ---- inputs ----
Malformed == [kind |-> "malformed"]

Absent == [kind |-> "absent"]

PackageJson(dependencies, devDependencies) ==
    [kind |-> "json", dependencies |-> dependencies,
     devDependencies |-> devDependencies]

Text(textLines) == [kind |-> "text", lines |-> textLines]

RootDependencies == <<"react", "react-dom", "express", "prisma">>

RootPackageContents ==
    {Malformed} \cup
    { PackageJson(LET In(d) == d \in chosen IN SelectSeq(RootDependencies, In), dev) :
        chosen \in SUBSET Range(RootDependencies),
        dev \in {<<>>, <<"typescript">>, <<"mongoose", "react">>} }

ClientPackageContents == {Malformed, PackageJson(<<"react">>, <<>>)}

RequirementsContents ==
    {Text(<<"django==4.2">>), Text(<<"flask==2.3", "django==4.2">>)}

DockerfileContents == {Text(<<"FROM node:18">>), Text(<<"FROM nginx:alpine">>)}

ComposeContents == {Text(<<"image: postgres:15", "image: redis:7">>)}

GoModContents == {Text(<<>>)}

\* the entries that are present, in key order
RECURSIVE Entries(_, _)
Entries(paths, contents) ==
    IF paths = <<>> THEN <<>>
    ELSE (IF Head(contents) = Absent THEN <<>>
          ELSE <<[path |-> Head(paths), content |-> Head(contents)]>>)
         \o Entries(Tail(paths), Tail(contents))

ConfigPaths ==
    <<"package.json", "client/package.json", "requirements.txt",
      "Dockerfile", "docker-compose.yml", "go.mod">>

\* ---- the function as a process ----
AnalyzeEntry ==
    /\ dpc = "scan"
    /\ fileIdx <= Len(files)
    /\ techStack' = TryEntry(techStack, files[fileIdx])
    /\ fileIdx' = fileIdx + 1
    /\ UNCHANGED <<files, dpc>>
    /\ UNCHANGED notDetect

RemoveDuplicates ==
    /\ dpc = "scan"
    /\ fileIdx > Len(files)
    /\ techStack' = DedupAll(techStack)
    /\ dpc' = "returned"
    /\ UNCHANGED <<files, fileIdx>>
    /\ UNCHANGED notDetect

DetectIdle ==
    /\ files = <<>>
    /\ fileIdx = 1
    /\ techStack = EmptyProfile
    /\ dpc = "returned"

DetectInit ==
    /\ \E c1 \in RootPackageContents \cup {Absent},
          c2 \in ClientPackageContents \cup {Absent},
          c3 \in RequirementsContents \cup {Absent},
          c4 \in DockerfileContents \cup {Absent},
          c5 \in ComposeContents \cup {Absent},
          c6 \in GoModContents \cup {Absent} :
            files = Entries(ConfigPaths, <<c1, c2, c3, c4, c5, c6>>)
    /\ fileIdx = 1
    /\ techStack = EmptyProfile
    /\ dpc = "scan"

DetectNext ==
    \/ AnalyzeEntry
    \/ RemoveDuplicates

----------------------------------------------------------------------------
(* Strings of the completion text: sequences with one element per         *)
(* character.  A Hangul syllable is written as its romanisation ("seong"  *)
(* "gwa" for the two syllables of the word for achievement), the bullet   *)
(* glyph U+2022 as "bullet".  A technology name, a number or the language *)
(* statistics interpolated into a template is a single element.           *)

Whitespace == {" ", "\t", "\n", "\r"}

\* the least index >= p whose character is not in `chars` (Len + 1 if none)
RECURSIVE SkipWhile(_, _, _)
SkipWhile(s, p, chars) ==
    IF p <= Len(s) /\ s[p] \in chars THEN SkipWhile(s, p + 1, chars) ELSE p

\* the greatest index <= p whose character is not in `chars` (0 if none)
RECURSIVE SkipBack(_, _, _)
SkipBack(s, p, chars) ==
    IF p >= 1 /\ s[p] \in chars THEN SkipBack(s, p - 1, chars) ELSE p

\* String.prototype.trim
Trim(s) == SubSeq(s, SkipWhile(s, 1, Whitespace), SkipBack(s, Len(s), Whitespace))

\* the elements of a set of positions in increasing order
SortedSeq(positions) ==
    [j \in 1..Cardinality(positions) |->
        CHOOSE p \in positions : Cardinality({q \in positions : q < p}) = j - 1]

\* String.prototype.split for a pattern whose matches start at `starts` and
\* end at endOf[start]; the matches do not overlap
SplitAt(s, starts, endOf) ==
    LET m == SortedSeq(starts)
    IN [j \in 1..(Len(m) + 1) |->
            SubSeq(s, IF j = 1 THEN 1 ELSE endOf[m[j - 1]] + 1,
                      IF j = Len(m) + 1 THEN Len(s) ELSE m[j] - 1)]

\* split("\n"), split(/[.!?]/), split(/[<bullet>\-\*]/), split(":")
SplitOnChars(s, seps) ==
    LET starts == {k \in 1..Len(s) : s[k] \in seps}
    IN SplitAt(s, starts, [k \in starts |-> k])

\* split(/:\s*/)
SplitOnColon(s) ==
    LET starts == {k \in 1..Len(s) : s[k] = ":"}
    IN SplitAt(s, starts, [k \in starts |-> SkipWhile(s, k + 1, Whitespace) - 1])

\* whether the literal occurs in s at position p
HasAt(s, p, literal) ==
    /\ p >= 1
    /\ p + Len(literal) - 1 <= Len(s)
    /\ SubSeq(s, p, p + Len(literal) - 1) = literal

Digits == {"0", "1", "2", "3", "4", "5", "6", "7", "8", "9"}

\* the end of a match of /###\s*<seong><gwa>\s*\d+:/ that starts at p, 0 if none
AchievementEnd(s, p) ==
    IF ~HasAt(s, p, <<"#", "#", "#">>) THEN 0
    ELSE LET a == SkipWhile(s, p + 3, Whitespace) IN
         IF ~HasAt(s, a, <<"seong", "gwa">>) THEN 0
         ELSE LET b == SkipWhile(s, a + 2, Whitespace)
                  c == SkipWhile(s, b, Digits)
              IN IF c > b /\ HasAt(s, c, <<":">>) THEN c ELSE 0

\* split(/###\s*<seong><gwa>\s*\d+:/)
SplitOnAchievement(s) ==
    LET starts == {k \in 1..Len(s) : AchievementEnd(s, k) > 0}
    IN SplitAt(s, starts, [k \in starts |-> AchievementEnd(s, k)])

\* Array.prototype.join
RECURSIVE JoinWith(_, _)
JoinWith(parts, sep) ==
    IF parts = <<>> THEN <<>>
    ELSE IF Len(parts) = 1 THEN parts[1]
    ELSE parts[1] \o sep \o JoinWith(Tail(parts), sep)

\* s.substring(0, n)
Substring0(s, n) == SubSeq(s, 1, Min(n, Len(s)))

\* a || b on strings
OrElse(a, b) == IF a # <<>> THEN a ELSE b

\* s.includes(ch) for a single character
IncludesChar(s, ch) == \E k \in 1..Len(s) : s[k] = ch

\* s.includes(literal)
IncludesLiteral(s, literal) == \E k \in 1..Len(s) : HasAt(s, k, literal)

NonBlank(s) == Trim(s) # <<>>

\* list.map(s => s.trim())
TrimAll(list) == [k \in 1..Len(list) |-> Trim(list[k])]

----------------------------------------------------------------------------
(* SectionExtractor: the parse loop of generateEnhancedRepositorySummary  *)
(* and processSection                                                     *)

\* /^##\s*<digit>\.\s*<first>\s*<second>/ and the section it opens
Heading(digit, first, second, section) ==
    [digit |-> digit, first |-> first, second |-> second, section |-> section]

HeadingPatterns ==
    << Heading("1", <<"peu", "ro", "jeg", "teu">>, <<"so", "gae">>, "project_intro"),
       Heading("2", <<"sa", "yong">>, <<"eon", "eo">>, "languages"),
       Heading("3", <<"gi", "sul">>, <<"seu", "taeg">>, "tech_stack"),
       Heading("4", <<"peu", "ro", "jeg", "teu">>, <<"a", "ki", "teg", "cheo">>, "architecture"),
       Heading("5", <<"gae", "bal">>, <<"gwa", "jeong">>, "refactoring_history"),
       Heading("6", <<"hyeob", "eob">>, <<>>, "collaboration_flow"),
       Heading("7", <<"i", "ryeog", "seo", "yong">>, <<"seong", "gwa">>, "resume_bullets") >>

\* line.match(pattern)
MatchesHeading(line, h) ==
    /\ HasAt(line, 1, <<"#", "#">>)
    /\ LET a == SkipWhile(line, 3, Whitespace) IN
       /\ HasAt(line, a, <<h.digit, ".">>)
       /\ LET b == SkipWhile(line, a + 2, Whitespace) IN
          /\ HasAt(line, b, h.first)
          /\ HasAt(line, SkipWhile(line, b + Len(h.first), Whitespace), h.second)

\* the first branch of the if / else-if chain that the line takes: the index
\* of the heading pattern, 0 if the line is no section heading
HeadingOf(line) ==
    LET hits == {k \in 1..Len(HeadingPatterns) : MatchesHeading(line, HeadingPatterns[k])}
    IN IF hits = {} THEN 0 ELSE CHOOSE k \in hits : \A m \in hits : k <= m

\* line.match(/^##/)
StartsWithHashes(line) == HasAt(line, 1, <<"#", "#">>)

\* content.split("\n").map(trim).filter(non-empty)
LinesOf(text) ==
    LET NonEmpty(line) == line # <<>>
    IN SelectSeq(TrimAll(SplitOnChars(text, {"\n"})), NonEmpty)

InitialSummary ==
    [branch_name |-> "main",
     project_intro |-> <<>>,
     tech_stack |-> [frontend |-> <<>>, backend |-> <<>>, database |-> <<>>,
                     devops |-> <<>>, testing |-> <<>>, other |-> <<>>],
     refactoring_history |-> <<>>,
     collaboration_flow |-> <<>>,
     resume_bullets |-> <<>>]

Bullet(title, content) == [title |-> title, content |-> content]

\* ---- processSection, case "resume_bullets" ----

\* one part after a "### <achievement> N:" marker: its first line is the
\* title, the remaining lines the content
AchievementOf(section) ==
    LET sectionLines == SelectSeq(SplitOnChars(Trim(section), {"\n"}), NonBlank)
        title == IF sectionLines = <<>> THEN <<>> ELSE Trim(sectionLines[1])
        content == IF sectionLines = <<>> THEN <<>> ELSE Trim(JoinWith(Tail(sectionLines), <<" ">>))
    IN [pushed |-> sectionLines # <<>> /\ title # <<>> /\ content # <<>>,
        bullet |-> Bullet(IF Len(title) > 80 THEN Substring0(title, 80) \o <<".", ".", ".">> ELSE title,
                          IF Len(content) > 200 THEN Substring0(content, 200) \o <<".", ".", ".">>
                          ELSE content)]

AchievementBullets(cleanContent) ==
    LET achievementSections == SplitOnAchievement(cleanContent)
        parsed == [k \in 1..(Len(achievementSections) - 1) |->
                      AchievementOf(achievementSections[k + 1])]
        Pushed(a) == a.pushed
        kept == SelectSeq(parsed, Pushed)
    IN [k \in 1..Len(kept) |-> kept[k].bullet]

SentenceEnds == {".", "!", "?"}

BulletGlyphs == {"bullet", "-", "*"}

\* the bullet built from sections[i] and sections[i + 1] of the colon split
ColonPair(before, after) ==
    LET beforeParts == SplitOnChars(before, SentenceEnds)
        title == OrElse(Trim(beforeParts[Len(beforeParts)]), Trim(before))
        content == OrElse(Trim(SplitOnChars(after, SentenceEnds)[1]), Trim(after))
    IN [pushed |-> title # <<>> /\ content # <<>> /\ Len(title) > 3 /\ Len(content) > 3,
        text |-> title \o <<":", " ">> \o content]

\* split(/[glyphs]/).map(trim).filter(length > 10)
GlyphChunks(cleanContent) ==
    LET LongerThan10(s) == Len(s) > 10
    IN SelectSeq(TrimAll(SplitOnChars(cleanContent, BulletGlyphs)), LongerThan10)

\* split(/:\s*/).filter(non-blank)
ColonSections(cleanContent) == SelectSeq(SplitOnColon(cleanContent), NonBlank)

\* the `${title}: ${content}` strings pushed by the loop over the sections
ColonBullets(cleanContent) ==
    LET sections == ColonSections(cleanContent)
        pairs == [k \in 1..(Len(sections) - 1) |-> ColonPair(sections[k], sections[k + 1])]
        Pushed(p) == p.pushed
        keptPairs == SelectSeq(pairs, Pushed)
    IN [k \in 1..Len(keptPairs) |-> keptPairs[k].text]

\* split(/[.!?]/).map(trim).filter(length > 20)
SentenceChunks(cleanContent) ==
    LET LongerThan20(s) == Len(s) > 20
    IN SelectSeq(TrimAll(SplitOnChars(cleanContent, SentenceEnds)), LongerThan20)

\* mutant of fallbackBullets: a tier that yields nothing hands over to the next
fallbackBulletsFallThrough(cleanContent) ==
    IF GlyphChunks(cleanContent) # <<>> THEN GlyphChunks(cleanContent)
    ELSE IF ColonBullets(cleanContent) # <<>> THEN ColonBullets(cleanContent)
    ELSE IF SentenceChunks(cleanContent) # <<>> THEN SentenceChunks(cleanContent)
    ELSE <<cleanContent>>

fallbackBullets(cleanContent) ==
    LET found ==
            IF \E g \in BulletGlyphs : IncludesChar(cleanContent, g)
            THEN GlyphChunks(cleanContent)
            ELSE IF Len(ColonSections(cleanContent)) > 1
            THEN ColonBullets(cleanContent)
            ELSE SentenceChunks(cleanContent)
    IN IF found = <<>> THEN <<cleanContent>> ELSE found

\* `<achievement> ${index + 1}`
NumberedTitle(index) == <<"seong", "gwa", " ">> \o <<ToString(index + 1)>>

\* fallbackBullets.map((bullet, index) => ...), index from 0
BulletOf(bullet, index) ==
    IF IncludesChar(bullet, ":")
    THEN LET parts == SplitOnChars(bullet, {":"})
             title == parts[1]
         IN Bullet(OrElse(Trim(title), NumberedTitle(index)),
                   OrElse(Trim(JoinWith(Tail(parts), <<":">>)), Trim(title)))
    ELSE LET sentences == SelectSeq(SplitOnChars(bullet, SentenceEnds), NonBlank)
             title == IF sentences = <<>> THEN NumberedTitle(index)
                      ELSE OrElse(Trim(sentences[1]), NumberedTitle(index))
             content == IF sentences = <<>> THEN Trim(bullet)
                        ELSE OrElse(Trim(JoinWith(Tail(sentences), <<".", " ">>)), Trim(bullet))
         IN Bullet(IF Len(title) > 80 THEN Substring0(title, 80) ELSE title,
                   OrElse(content, Trim(bullet)))

ResumeBullets(cleanContent) ==
    LET bullets == AchievementBullets(cleanContent)
        fallback == fallbackBullets(cleanContent)
        parsed == IF bullets = <<>>
                  THEN [k \in 1..Len(fallback) |-> BulletOf(fallback[k], k - 1)]
                  ELSE bullets
    IN IF parsed = <<>>
       THEN << Bullet(<<"peu", "ro", "jeg", "teu", " ", "wan", "ryo">>, OrElse(cleanContent, <<"peu", "ro", "jeg", "teu", " ", "bun", "seog", "i", " ", "wan", "ryo", "doe", "eoss", "seub", "ni", "da", ".">>)) >>
       ELSE parsed

\* ---- processSection ----

\* mutant of TechStackSection: the categories are read from the section text
TechStackSectionFromText(draft, cleanContent, detectedTechStack) ==
    [draft EXCEPT !.tech_stack =
        [frontend |-> <<cleanContent>>, backend |-> <<>>, database |-> <<>>,
         devops |-> <<>>, testing |-> <<>>, other |-> draft.tech_stack.other]]

\* case "tech_stack": the detected categories replace whatever the text says
TechStackSection(draft, cleanContent, detectedTechStack) ==
    [draft EXCEPT !.tech_stack =
        [frontend |-> detectedTechStack.frontend,
         backend |-> detectedTechStack.backend,
         database |-> detectedTechStack.database,
         devops |-> detectedTechStack.devops,
         testing |-> detectedTechStack.testing,
         other |-> draft.tech_stack.other]]

processSection(sectionType, text, draft, detectedTechStack) ==
    LET cleanContent == Trim(text) IN
    CASE sectionType = "project_intro" ->
            [draft EXCEPT !.project_intro = cleanContent]
      [] sectionType = "languages" ->
            [draft EXCEPT !.tech_stack.other = Append(@, <<"sa", "yong", " ", "eon", "eo", ":", " ">> \o cleanContent)]
      [] sectionType = "tech_stack" ->
            TechStackSection(draft, cleanContent, detectedTechStack)
      [] sectionType = "architecture" ->
            [draft EXCEPT !.tech_stack.other = Append(@, <<"a", "ki", "teg", "cheo", ":", " ">> \o cleanContent)]
      [] sectionType = "refactoring_history" ->
            [draft EXCEPT !.refactoring_history = cleanContent]
      [] sectionType = "collaboration_flow" ->
            [draft EXCEPT !.collaboration_flow = cleanContent]
      [] sectionType = "resume_bullets" ->
            [draft EXCEPT !.resume_bullets = ResumeBullets(cleanContent)]
      [] OTHER -> draft

\* ---- the fallback of generateEnhancedRepositorySummary ----

repoName == <<"r", "e", "p", "o">>

languageStats == <<"TypeScript: 12KB">>

\* the condition under which the parsed draft is replaced by defaults
\* the condition of the defaults taken as never true
ParsingFailedNever(draft) == FALSE

ParsingFailed(draft) ==
    /\ draft.project_intro = <<>>
    /\ draft.tech_stack.frontend = <<>>
    /\ draft.refactoring_history = <<>>

\* the introduction taken from the lines that follow the first line naming it
FallbackIntro(text) ==
    LET contentLines == SelectSeq(SplitOnChars(text, {"\n"}), NonBlank)
        named == {k \in 1..Len(contentLines) :
                    \/ IncludesLiteral(contentLines[k], <<"peu", "ro", "jeg", "teu", " ", "so", "gae">>)
                    \/ IncludesLiteral(contentLines[k], <<"P", "r", "o", "j", "e", "c", "t", " ", "I", "n", "t", "r", "o", "d", "u", "c", "t", "i", "o", "n">>)}
        introStart == IF named = {} THEN 0
                      ELSE CHOOSE k \in named : \A m \in named : k <= m
    IN IF introStart > 0 /\ introStart < Len(contentLines)
       THEN OrElse(Trim(JoinWith(Slice(contentLines, introStart + 1, introStart + 3), <<" ">>)),
                   repoName \o <<" ", "peu", "ro", "jeg", "teu">>)
       ELSE repoName \o <<" ", "peu", "ro", "jeg", "teu", " ", "-", " ", "G", "i", "t", "H", "u", "b", " ", "re", "po", "ji", "to", "ri", " ", "bun", "seog">>

\* detected.join(", ")
JoinNames(names) == JoinWith([k \in 1..Len(names) |-> <<names[k]>>], <<",", " ">>)

FallbackSummary(draft, text, detectedTechStack, commits, prs) ==
    [draft EXCEPT
        !.project_intro = FallbackIntro(text),
        !.tech_stack =
            [frontend |-> detectedTechStack.frontend,
             backend |-> detectedTechStack.backend,
             database |-> detectedTechStack.database,
             devops |-> detectedTechStack.devops,
             testing |-> detectedTechStack.testing,
             other |-> << <<"eon", "eo", " ", "tong", "gye", ":", " ">> \o languageStats >>],
        !.refactoring_history =
            IF commits # <<>>
            THEN <<"ju", "yo", " ", "keo", "mis", " ", "nae", "yeog", ":", " ">> \o Substring0(commits, 200) \o <<".", ".", ".">>
            ELSE <<"gae", "bal", " ", "gwa", "jeong", " ", "bun", "seog", " ", "pil", "yo">>,
        !.collaboration_flow =
            IF prs # <<>>
            THEN <<"P", "R", " ", "bun", "seog", ":", " ">> \o Substring0(prs, 200) \o <<".", ".", ".">>
            ELSE <<"gae", "in", " ", "peu", "ro", "jeg", "teu", "ro", " ", "chu", "jeong">>,
        !.resume_bullets =
            << Bullet(<<"peu", "ro", "jeg", "teu", " ", "gae", "bal", " ", "wan", "ryo">>,
                      repoName \o <<" ", "peu", "ro", "jeg", "teu", "reul", " ", "seong", "gong", "jeog", "eu", "ro", " ", "gae", "bal", "ha", "go", " ", "bae", "po", "haess", "seub", "ni", "da", ".">>),
               Bullet(<<"gi", "sul", " ", "seu", "taeg", " ", "hwal", "yong">>,
                      OrElse(JoinNames(detectedTechStack.detected), <<"da", "yang", "han", " ", "gi", "sul">>)
                      \o <<"eul", " ", "hwal", "yong", "ha", "yeo", " ", "peu", "ro", "jeg", "teu", "reul", " ", "gu", "hyeon", "haess", "seub", "ni", "da", ".">>) >>]

\* ---- the parse loop ----

\* processSection is called for the open section if it has collected lines
Flushes == currentSection # "" /\ sectionContent # <<>>

Flushed ==
    IF Flushes
    THEN processSection(currentSection, JoinWith(sectionContent, <<" ">>),
                        extracted, techStackFromFiles)
    ELSE extracted

\* one iteration of `for (const line of lines)`
ParseLine ==
    /\ xpc = "parse"
    /\ lineIdx <= Len(lines)
    /\ LET line == lines[lineIdx]
           h == HeadingOf(line)
       IN IF h > 0
          THEN /\ extracted' = Flushed
               /\ processed' = IF Flushes THEN Append(processed, currentSection)
                               ELSE processed
               /\ currentSection' = HeadingPatterns[h].section
               /\ sectionContent' = <<>>
          ELSE IF currentSection # "" /\ ~StartsWithHashes(line)
          THEN /\ sectionContent' = Append(sectionContent, line)
               /\ UNCHANGED <<extracted, processed, currentSection>>
          ELSE UNCHANGED <<extracted, processed, currentSection, sectionContent>>
    /\ lineIdx' = lineIdx + 1
    /\ UNCHANGED <<aiText, lines, techStackFromFiles, commitMessages, prDescriptions, xpc>>
    /\ UNCHANGED notExtract

\* after the loop: the last section, the fallback, the return
FinishParse ==
    /\ xpc = "parse"
    /\ lineIdx > Len(lines)
    /\ LET last == Flushed IN
       /\ extracted' =
             IF ParsingFailed(last)
             THEN FallbackSummary(last, aiText, techStackFromFiles,
                                  commitMessages, prDescriptions)
             ELSE last
       /\ processed' = (IF Flushes THEN Append(processed, currentSection) ELSE processed)
                       \o (IF ParsingFailed(last) THEN <<"fallback">> ELSE <<>>)
    /\ xpc' = "returned"
    /\ UNCHANGED <<aiText, lines, techStackFromFiles, commitMessages, prDescriptions,
                   lineIdx, currentSection, sectionContent>>
    /\ UNCHANGED notExtract

\* ---- inputs ----

\* the lines a completion text is made of
LineSamples ==
    { <<"#", "#", " ", "1", ".", " ", "peu", "ro", "jeg", "teu", " ", "so", "gae">>, <<"#", "#", " ", "2", ".", " ", "sa", "yong", " ", "eon", "eo">>, <<"#", "#", "3", ".", "gi", "sul", "seu", "taeg">>,
      <<"#", "#", " ", "4", ".", " ", "peu", "ro", "jeg", "teu", " ", "a", "ki", "teg", "cheo">>, <<"#", "#", " ", "5", ".", " ", "gae", "bal", " ", "gwa", "jeong">>, <<"#", "#", " ", "6", ".", " ", "hyeob", "eob", " ", "mich", " ", "gi", "yeo">>,
      <<"#", "#", " ", "7", ".", " ", "i", "ryeog", "seo", "yong", " ", "seong", "gwa">>, <<"#", "#", "#", " ", "seong", "gwa", " ", "1", ":", " ", "bae", "po", " ", "ja", "dong", "hwa">>,
      <<"-", " ", "F", "r", "o", "n", "t", "e", "n", "d", ":", " ", "A", "n", "g", "u", "l", "a", "r">>, <<" ", " ", "b", "u", "i", "l", "t", " ", "a", " ", "b", "o", "o", "k", "i", "n", "g", " ", "s", "e", "r", "v", "i", "c", "e", ".">>,
      <<"A", "P", "I", ":", " ", "b", "u", "i", "l", "t", " ", "t", "w", "e", "n", "t", "y", " ", "R", "E", "S", "T", " ", "e", "n", "d", "p", "o", "i", "n", "t", "s", ".", " ", "C", "u", "t", " ", "t", "h", "e", " ", "r", "e", "s", "p", "o", "n", "s", "e", " ", "t", "i", "m", "e", " ", "i", "n", " ", "h", "a", "l", "f", ".">>, <<" ">> }

\* the texts of at most n lines
RECURSIVE TextsUpTo(_)
TextsUpTo(n) ==
    IF n = 0 THEN {<<>>}
    ELSE LET shorter == TextsUpTo(n - 1)
         IN shorter \cup {t \o <<l>> : t \in shorter, l \in LineSamples}

ProfileSamples ==
    { EmptyProfile,
      analyzeTechStackFromFiles(
        <<[path |-> "package.json",
           content |-> PackageJson(<<"react", "express", "prisma">>, <<>>)]>>) }

ExtractIdle ==
    /\ aiText = <<>>
    /\ lines = <<>>
    /\ techStackFromFiles = EmptyProfile
    /\ commitMessages = <<>>
    /\ prDescriptions = <<>>
    /\ lineIdx = 1
    /\ currentSection = ""
    /\ sectionContent = <<>>
    /\ extracted = InitialSummary
    /\ processed = <<>>
    /\ xpc = "returned"

\* the state after the completion returned a non-empty text and the initial
\* summary object was built
ExtractInit ==
    /\ \E t \in TextsUpTo(MaxLines) \ {<<>>} : aiText = JoinWith(t, <<"\n">>)
    /\ lines = LinesOf(aiText)
    /\ techStackFromFiles \in ProfileSamples
    /\ \E h \in {<<<<>>, <<>>>>, <<<<"f", "i", "x", ":", " ", "l", "o", "g", "i", "n", " ", "b", "u", "g">>, <<"P", "R", " ", "#", "1", ":", " ", "l", "o", "g", "i", "n", " ", "-", " ", "f", "i", "x", "e", "s", " ", "t", "h", "e", " ", "l", "o", "g", "i", "n", " ", "b", "u", "g">>>>} :
          /\ commitMessages = h[1]
          /\ prDescriptions = h[2]
    /\ lineIdx = 1
    /\ currentSection = ""
    /\ sectionContent = <<>>
    /\ extracted = InitialSummary
    /\ processed = <<>>
    /\ xpc = "parse"

ExtractNext ==
    \/ ParseLine
    \/ FinishParse

----------------------------------------------------------------------------
(* The analysis run: POST /github/repos/:owner/:repo/summary *)

UserId == "u1"

\* the repository named by :owner/:repo (its GitHub id)
AnalysedRepo == "r1"

\* columns of a registry row that the conflict target names
RegistryKey(row) == <<row.user_id, row.github_repo_id, row.branch_name>>

\* gen_random_uuid() for table "repositories"
FreshRepositoryId(rows) ==
    CHOOSE id \in RepositoryIds : id \notin {r.id : r \in rows}

\* saveRepository: .upsert(row, { onConflict: "user_id,github_repo_id,branch_name" })
SaveRepositoryRows(rows, userId, githubRepoId, branchName, t) ==
    LET key == <<userId, githubRepoId, branchName>> IN
    IF \E r \in rows : RegistryKey(r) = key
    THEN {IF RegistryKey(r) = key THEN [r EXCEPT !.updated_at = t] ELSE r : r \in rows}
    ELSE rows \cup {[id |-> FreshRepositoryId(rows), user_id |-> userId,
                     github_repo_id |-> githubRepoId, branch_name |-> branchName,
                     updated_at |-> t]}

\* data.id after .select("id").single()
SavedRepositoryId(rows, userId, githubRepoId, branchName) ==
    (CHOOSE r \in rows : RegistryKey(r) = <<userId, githubRepoId, branchName>>).id

IdleRun == [pc |-> "idle"]

\* branch || defaultBranch
EffectiveBranch(branch, defaultBranch) ==
    IF branch = None THEN defaultBranch ELSE branch

Fail(r, message) ==
    [pc |-> "failed", ref |-> r.ref, defaultBranch |-> r.defaultBranch,
     reads |-> r.reads, before |-> r.before, error |-> message,
     completions |-> r.completions, completion |-> r.completion]

\* a read of the VCS that names a ref, as the route issues it
Read(kind, ref) == [kind |-> kind, ref |-> ref]

\* the ref the route passes to getFileContent
FileContentRef(r) == r.defaultBranch

\* the request arrives: checkAuth, getDefaultBranch (which falls back to
\* "main" and never throws), getRepositoryReadme (which never throws)
RunStart ==
    /\ run.pc = "idle"
    /\ \E branch \in BranchNames \cup {None}, defaultBranch \in BranchNames,
          authenticated \in BOOLEAN :
          LET fresh == [pc |-> "collect",
                        ref |-> EffectiveBranch(branch, defaultBranch),
                        defaultBranch |-> defaultBranch,
                        \* history: the ref-scoped reads issued so far
                        reads |-> {},
                        before |-> [repositories |-> repositories,
                                    repository_summaries |-> repository_summaries],
                        \* history: invocations of the completion service
                        \* and what the last one gave
                        completions |-> 0,
                        completion |-> "none"]
          IN run' = IF authenticated
                    THEN [fresh EXCEPT !.reads = {Read("readme", fresh.ref)}]
                    ELSE Fail(fresh, "Authentication required")
    /\ UNCHANGED storeVars
    /\ UNCHANGED notRun

\* Promise.all of commits, pull requests, tree and branch languages: the
\* first three reject when their request (after the fallback) fails, the
\* language analysis catches everything
RunCollect ==
    /\ run.pc = "collect"
    /\ \E failure \in {None, "Failed to fetch repository commits",
                       "Failed to fetch repository pull requests",
                       "Failed to fetch repository tree"} :
          LET started == [run EXCEPT !.reads =
                             @ \cup {Read("commits", run.ref), Read("tree", run.ref),
                                     Read("languages", run.ref)}]
          IN run' = IF failure = None THEN [started EXCEPT !.pc = "files"]
                    ELSE Fail(started, failure)
    /\ UNCHANGED storeVars
    /\ UNCHANGED notRun

\* the file contents are gathered; a failure in here is logged and the run
\* goes on with what it has
RunFetchFiles ==
    /\ run.pc = "files"
    /\ \E relevant \in BOOLEAN :
          run' = [run EXCEPT !.pc = "generate",
                             !.reads = IF relevant
                                       THEN @ \cup {Read("fileContent", FileContentRef(run))}
                                       ELSE @]
    /\ UNCHANGED storeVars
    /\ UNCHANGED notRun

\* what openai.chat.completions.create gives: it rejects, it resolves
\* without choices[0].message, with a null or empty content, or with a text
CompletionOutcomes == {"rejected", "malformed", "empty", "text"}

CompletionFailures == {"rejected", "malformed", "empty"}

GenerationFailure == "Failed to generate enhanced repository summary"

\* the handling of the completion with an empty content taken for a text
GenerationResultEmptyAccepted(r, outcome, d) ==
    IF outcome \in {"text", "empty"}
    THEN [r EXCEPT !.pc = "getRepository"] @@
         [summary |-> [d EXCEPT !.branch_name = r.ref]]
    ELSE Fail(r, GenerationFailure)

\* after the one call of the completion service: every throw inside
\* generateEnhancedRepositorySummary (the rejected call, "Invalid API response
\* structure", "No content received from AI") lands in its catch, which
\* throws the generation failure; a text is parsed into the draft d, whose
\* branch_name the route sets
GenerationResult(r, outcome, d) ==
    IF outcome = "text"
    THEN [r EXCEPT !.pc = "getRepository"] @@
         [summary |-> [d EXCEPT !.branch_name = r.ref]]
    ELSE Fail(r, GenerationFailure)

\* generateEnhancedRepositorySummary returns a draft or throws
RunGenerate ==
    /\ run.pc = "generate"
    /\ \E outcome \in CompletionOutcomes, d \in Drafts :
          run' = GenerationResult(
                     [run EXCEPT !.completions = @ + 1, !.completion = outcome],
                     outcome, d)
    /\ UNCHANGED storeVars
    /\ UNCHANGED notRun

RunGetRepository ==
    /\ run.pc = "getRepository"
    /\ \E fetched \in BOOLEAN :
          run' = IF fetched THEN [run EXCEPT !.pc = "saveRepository"]
                 ELSE Fail(run, "Failed to fetch repository")
    /\ UNCHANGED storeVars
    /\ UNCHANGED notRun

\* saveRepository: the registry row of (user, repository, branch) is
\* upserted and its id returned, or the call throws
RunSaveRepository ==
    /\ run.pc = "saveRepository"
    /\ \E dbOk \in BOOLEAN :
          IF dbOk
          THEN /\ now < MaxClock
               /\ now' = now + 1
               /\ repositories' =
                     SaveRepositoryRows(repositories, UserId, AnalysedRepo, run.ref, now')
               /\ run' = [run EXCEPT !.pc = "saveSummary"] @@
                         [repositoryId |->
                            SavedRepositoryId(repositories', UserId, AnalysedRepo, run.ref)]
          ELSE /\ run' = Fail(run, "Failed to save repository")
               /\ UNCHANGED <<repositories, now>>
    /\ UNCHANGED <<repository_summaries, upserts, call>>
    /\ UNCHANGED notRun

\* saveRepositorySummary(repositoryId, branch || defaultBranch, summary,
\* performanceMetrics) is called
RunSaveSummary ==
    /\ run.pc = "saveSummary"
    /\ call["run1"].pc = "idle"
    /\ \E m \in Metrics :
          call' = [call EXCEPT !["run1"] =
                     [pc |-> "repoCheck", repositoryId |-> run.repositoryId,
                      branchName |-> run.ref, summary |-> run.summary,
                      data |-> dataToSave(run.repositoryId, run.ref, run.summary, m, now)]]
    /\ run' = [run EXCEPT !.pc = "saving"]
    /\ UNCHANGED <<repositories, repository_summaries, now, upserts>>
    /\ UNCHANGED notRun

\* saveRepositorySummary returned or threw: the reply is sent
RunReply ==
    /\ run.pc = "saving"
    /\ call["run1"].pc \in {"returned", "thrown"}
    /\ run' = IF call["run1"].pc = "returned"
              THEN [pc |-> "succeeded", ref |-> run.ref,
                    defaultBranch |-> run.defaultBranch, reads |-> run.reads,
                    before |-> run.before,
                    repositoryId |-> run.repositoryId, summary |-> run.summary,
                    completions |-> run.completions,
                    completion |-> run.completion]
              ELSE Fail(run, call["run1"].error)
    /\ call' = [call EXCEPT !["run1"] = IdleCall]
    /\ UNCHANGED <<repositories, repository_summaries, now, upserts>>
    /\ UNCHANGED notRun

\* the next request
RunReset ==
    /\ run.pc \in {"succeeded", "failed"}
    /\ run' = IdleRun
    /\ UNCHANGED storeVars
    /\ UNCHANGED notRun

RunIdle == run = IdleRun

RunNext ==
    \/ RunStart
    \/ RunCollect
    \/ RunFetchFiles
    \/ RunGenerate
    \/ RunGetRepository
    \/ RunSaveRepository
    \/ RunSaveSummary
    \/ SaveRepoCheck("run1")
    \/ SaveUpsert("run1")
    \/ RunReply
    \/ RunReset

----------------------------------------------------------------------------
(* The repository tree: analyzeBranchLanguages, the relevantFiles filter  *)
(* of the summary route and analyzeProjectStructure.  A path is a         *)
(* sequence with one element per character.                               *)

UpperCaseLetters ==
    <<"A", "B", "C", "D", "E", "F", "G", "H", "I", "J", "K", "L", "M",
      "N", "O", "P", "Q", "R", "S", "T", "U", "V", "W", "X", "Y", "Z">>

LowerCaseLetters ==
    <<"a", "b", "c", "d", "e", "f", "g", "h", "i", "j", "k", "l", "m",
      "n", "o", "p", "q", "r", "s", "t", "u", "v", "w", "x", "y", "z">>

\* String.prototype.toLowerCase
toLowerCase(s) ==
    [k \in 1..Len(s) |->
        IF \E u \in DOMAIN UpperCaseLetters : UpperCaseLetters[u] = s[k]
        THEN LowerCaseLetters[
                 CHOOSE u \in DOMAIN UpperCaseLetters : UpperCaseLetters[u] = s[k]]
        ELSE s[k]]

\* s.split(sep).pop(): what follows the last sep; the whole of s when it has
\* no sep
LastPart(s, sep) ==
    LET at == {k \in 1..Len(s) : s[k] = sep}
    IN IF at = {} THEN s
       ELSE SubSeq(s, (CHOOSE m \in at : \A k \in at : k <= m) + 1, Len(s))

\* String.prototype.startsWith
startsWith(s, literal) == HasAt(s, 1, literal)

\* String.prototype.endsWith
endsWith(s, literal) == HasAt(s, Len(s) - Len(literal) + 1, literal)

Blob(path) == [type |-> "blob", path |-> path]

Folder(path) == [type |-> "tree", path |-> path]

\* a submodule entry of the tree
Submodule(path) == [type |-> "commit", path |-> path]

BlobsOf(items) == SelectSeq(items, LAMBDA item : item.type = "blob")

(* the relevantFiles filter *)

\* the regular expressions, each a literal text that may occur anywhere in
\* the path
excludeLibraryPatterns ==
    { <<"n", "o", "d", "e", "_", "m", "o", "d", "u", "l", "e", "s", "/">>,
      <<".", "n", "p", "m", "/">>, <<".", "y", "a", "r", "n", "/">>,
      <<"b", "o", "w", "e", "r", "_", "c", "o", "m", "p", "o", "n", "e", "n", "t", "s", "/">>,
      <<"v", "e", "n", "v", "/">>, <<"e", "n", "v", "/">>,
      <<".", "v", "e", "n", "v", "/">>, <<".", "e", "n", "v", "/">>,
      <<"_", "_", "p", "y", "c", "a", "c", "h", "e", "_", "_", "/">>,
      <<".", "p", "y", "t", "e", "s", "t", "_", "c", "a", "c", "h", "e", "/">>,
      <<"s", "i", "t", "e", "-", "p", "a", "c", "k", "a", "g", "e", "s", "/">>,
      <<"d", "i", "s", "t", "-", "p", "a", "c", "k", "a", "g", "e", "s", "/">>,
      <<".", "t", "o", "x", "/">>, <<"t", "a", "r", "g", "e", "t", "/">>,
      <<".", "g", "r", "a", "d", "l", "e", "/">>,
      <<"g", "r", "a", "d", "l", "e", "/">>, <<".", "m", "2", "/">>,
      <<"b", "u", "i", "l", "d", "/">>, <<"o", "u", "t", "/">>,
      <<"c", "l", "a", "s", "s", "e", "s", "/">>, <<"b", "i", "n", "/">>,
      <<"o", "b", "j", "/">>,
      <<"p", "a", "c", "k", "a", "g", "e", "s", "/">>,
      <<".", "n", "u", "g", "e", "t", "/">>,
      <<"v", "e", "n", "d", "o", "r", "/">>,
      <<".", "b", "u", "n", "d", "l", "e", "/">>,
      <<"g", "e", "m", "s", "/">>,
      <<"c", "o", "m", "p", "o", "s", "e", "r", "/">>,
      <<".", "m", "o", "d", "/">>, <<".", "c", "a", "r", "g", "o", "/">>,
      <<".", "b", "u", "i", "l", "d", "/">>,
      <<".", "s", "w", "i", "f", "t", "p", "m", "/">>,
      <<".", "d", "a", "r", "t", "_", "t", "o", "o", "l", "/">>,
      <<".", "p", "u", "b", "/">>, <<"p", "o", "d", "s", "/">>,
      <<".", "c", "o", "c", "o", "a", "p", "o", "d", "s", "/">>,
      <<"c", "a", "r", "t", "h", "a", "g", "e", "/">>,
      <<"d", "e", "r", "i", "v", "e", "d", "_", "d", "a", "t", "a", "/">>,
      <<".", "a", "n", "d", "r", "o", "i", "d", "/">>,
      <<"d", "i", "s", "t", "/">>, <<"o", "u", "t", "p", "u", "t", "/">>,
      <<"r", "e", "l", "e", "a", "s", "e", "/">>,
      <<"d", "e", "b", "u", "g", "/">>,
      <<"c", "o", "v", "e", "r", "a", "g", "e", "/">>,
      <<".", "n", "e", "x", "t", "/">>, <<".", "n", "u", "x", "t", "/">>,
      <<".", "o", "u", "t", "p", "u", "t", "/">>,
      <<".", "v", "e", "r", "c", "e", "l", "/">>,
      <<".", "n", "e", "t", "l", "i", "f", "y", "/">>,
      <<".", "c", "a", "c", "h", "e", "/">>, <<".", "t", "m", "p", "/">>,
      <<"t", "e", "m", "p", "/">>, <<"t", "m", "p", "/">>,
      <<".", "t", "e", "m", "p", "/">>, <<".", "g", "i", "t", "/">>,
      <<".", "s", "v", "n", "/">>, <<".", "h", "g", "/">>,
      <<".", "v", "s", "c", "o", "d", "e", "/">>,
      <<".", "i", "d", "e", "a", "/">>,
      <<".", "e", "c", "l", "i", "p", "s", "e", "/">>,
      <<".", "s", "e", "t", "t", "i", "n", "g", "s", "/">>,
      <<".", "p", "r", "o", "j", "e", "c", "t", "/">>,
      <<".", "c", "l", "a", "s", "s", "p", "a", "t", "h", "/">>,
      <<"l", "o", "g", "s", "/">>, <<".", "l", "o", "g", "/">> }

excludeExtensions ==
    { <<"j", "p", "g">>, <<"j", "p", "e", "g">>, <<"p", "n", "g">>,
      <<"g", "i", "f">>, <<"b", "m", "p">>, <<"s", "v", "g">>,
      <<"i", "c", "o">>, <<"w", "e", "b", "p">>, <<"t", "i", "f", "f">>,
      <<"t", "i", "f">>, <<"r", "a", "w">>, <<"p", "s", "d">>, <<"a", "i">>,
      <<"e", "p", "s">>, <<"i", "n", "d", "d">>,
      <<"s", "k", "e", "t", "c", "h">>, <<"m", "p", "4">>, <<"a", "v", "i">>,
      <<"m", "o", "v">>, <<"w", "m", "v">>, <<"f", "l", "v">>,
      <<"w", "e", "b", "m">>, <<"m", "k", "v">>, <<"m", "4", "v">>,
      <<"3", "g", "p">>, <<"m", "p", "g">>, <<"m", "p", "e", "g">>,
      <<"o", "g", "v">>, <<"a", "s", "f">>, <<"r", "m">>,
      <<"r", "m", "v", "b">>, <<"m", "p", "3">>, <<"w", "a", "v">>,
      <<"f", "l", "a", "c">>, <<"a", "a", "c">>, <<"o", "g", "g">>,
      <<"w", "m", "a">>, <<"m", "4", "a">>, <<"o", "p", "u", "s">>,
      <<"a", "i", "f", "f">>, <<"t", "t", "f">>, <<"w", "o", "f", "f">>,
      <<"w", "o", "f", "f", "2">>, <<"e", "o", "t">>, <<"o", "t", "f">>,
      <<"f", "o", "n">>, <<"z", "i", "p">>, <<"r", "a", "r">>, <<"7", "z">>,
      <<"t", "a", "r">>, <<"g", "z">>, <<"b", "z", "2">>, <<"x", "z">>,
      <<"l", "z">>, <<"l", "z", "m", "a">>, <<"c", "a", "b">>,
      <<"i", "s", "o">>, <<"d", "m", "g">>, <<"p", "k", "g">>,
      <<"d", "e", "b">>, <<"r", "p", "m">>, <<"e", "x", "e">>,
      <<"d", "l", "l">>, <<"s", "o">>, <<"d", "y", "l", "i", "b">>,
      <<"a", "p", "p">>, <<"m", "s", "i">>, <<"b", "i", "n">>,
      <<"d", "a", "t">>, <<"d", "b">>, <<"s", "q", "l", "i", "t", "e">>,
      <<"s", "q", "l", "i", "t", "e", "3">>, <<"p", "d", "f">>,
      <<"d", "o", "c">>, <<"d", "o", "c", "x">>, <<"x", "l", "s">>,
      <<"x", "l", "s", "x">>, <<"p", "p", "t">>, <<"p", "p", "t", "x">>,
      <<"o", "d", "t">>, <<"o", "d", "s">>, <<"o", "d", "p">>,
      <<"r", "t", "f">>, <<"c", "l", "a", "s", "s">>, <<"j", "a", "r">>,
      <<"w", "a", "r">>, <<"e", "a", "r">>, <<"p", "y", "c">>,
      <<"p", "y", "o">>, <<"o">>, <<"o", "b", "j">>, <<"l", "i", "b">>,
      <<"a">>, <<"l", "a">>, <<"l", "o">>, <<"s", "l", "o">>, <<"k", "o">>,
      <<"m", "o", "d">>, <<"l", "o", "c", "k">> }

excludeFileNames ==
    {
      <<"p", "a", "c", "k", "a", "g", "e", "-", "l", "o", "c", "k", ".", "j", "s", "o", "n">>,
      <<"y", "a", "r", "n", ".", "l", "o", "c", "k">>,
      <<"c", "o", "m", "p", "o", "s", "e", "r", ".", "l", "o", "c", "k">>,
      <<"g", "e", "m", "f", "i", "l", "e", ".", "l", "o", "c", "k">>,
      <<"p", "i", "p", "f", "i", "l", "e", ".", "l", "o", "c", "k">>,
      <<"p", "o", "e", "t", "r", "y", ".", "l", "o", "c", "k">>,
      <<"c", "a", "r", "g", "o", ".", "l", "o", "c", "k">>,
      <<"g", "o", ".", "s", "u", "m">>,
      <<".", "d", "s", "_", "s", "t", "o", "r", "e">>,
      <<"t", "h", "u", "m", "b", "s", ".", "d", "b">>,
      <<"d", "e", "s", "k", "t", "o", "p", ".", "i", "n", "i">> }

\* the callback of treeResult.filter without its extension test
IsRelevantFileNoExtensionTest(item) ==
    IF item.type # "blob" THEN FALSE
    ELSE LET path == toLowerCase(item.path)
             fileName == LastPart(path, "/")
         IN IF \E pattern \in excludeLibraryPatterns :
                   IncludesLiteral(path, pattern)
            THEN FALSE
            ELSE ~ \E name \in excludeFileNames :
                     IncludesLiteral(toLowerCase(fileName), toLowerCase(name))

\* the callback of treeResult.filter
IsRelevantFile(item) ==
    IF item.type # "blob" THEN FALSE
    ELSE LET path == toLowerCase(item.path)
             extension == LastPart(path, ".")
             fileName == LastPart(path, "/")
         IN IF \E pattern \in excludeLibraryPatterns :
                   IncludesLiteral(path, pattern)
            THEN FALSE
            ELSE IF extension # <<>> /\ extension \in excludeExtensions
            THEN FALSE
            ELSE ~ \E name \in excludeFileNames :
                     IncludesLiteral(toLowerCase(fileName), toLowerCase(name))

(* analyzeBranchLanguages *)

\* the own properties of the object literal
languageMapping ==
          <<"j", "s">> :> "JavaScript"
       @@ <<"j", "s", "x">> :> "JavaScript"
       @@ <<"t", "s">> :> "TypeScript"
       @@ <<"t", "s", "x">> :> "TypeScript"
       @@ <<"m", "j", "s">> :> "JavaScript"
       @@ <<"c", "j", "s">> :> "JavaScript"
       @@ <<"p", "y">> :> "Python"
       @@ <<"p", "y", "w">> :> "Python"
       @@ <<"p", "y", "i">> :> "Python"
       @@ <<"j", "a", "v", "a">> :> "Java"
       @@ <<"c", "l", "a", "s", "s">> :> "Java"
       @@ <<"j", "a", "r">> :> "Java"
       @@ <<"c">> :> "C"
       @@ <<"c", "p", "p">> :> "C++"
       @@ <<"c", "x", "x">> :> "C++"
       @@ <<"c", "c">> :> "C++"
       @@ <<"h">> :> "C"
       @@ <<"h", "p", "p">> :> "C++"
       @@ <<"h", "x", "x">> :> "C++"
       @@ <<"c", "s">> :> "C#"
       @@ <<"g", "o">> :> "Go"
       @@ <<"r", "s">> :> "Rust"
       @@ <<"p", "h", "p">> :> "PHP"
       @@ <<"p", "h", "t", "m", "l">> :> "PHP"
       @@ <<"r", "b">> :> "Ruby"
       @@ <<"r", "b", "w">> :> "Ruby"
       @@ <<"s", "w", "i", "f", "t">> :> "Swift"
       @@ <<"k", "t">> :> "Kotlin"
       @@ <<"k", "t", "s">> :> "Kotlin"
       @@ <<"d", "a", "r", "t">> :> "Dart"
       @@ <<"h", "t", "m", "l">> :> "HTML"
       @@ <<"h", "t", "m">> :> "HTML"
       @@ <<"c", "s", "s">> :> "CSS"
       @@ <<"s", "c", "s", "s">> :> "SCSS"
       @@ <<"s", "a", "s", "s">> :> "Sass"
       @@ <<"l", "e", "s", "s">> :> "Less"
       @@ <<"v", "u", "e">> :> "Vue"
       @@ <<"s", "v", "e", "l", "t", "e">> :> "Svelte"
       @@ <<"s", "h">> :> "Shell"
       @@ <<"b", "a", "s", "h">> :> "Shell"
       @@ <<"z", "s", "h">> :> "Shell"
       @@ <<"f", "i", "s", "h">> :> "Shell"
       @@ <<"j", "s", "o", "n">> :> "JSON"
       @@ <<"x", "m", "l">> :> "XML"
       @@ <<"y", "a", "m", "l">> :> "YAML"
       @@ <<"y", "m", "l">> :> "YAML"
       @@ <<"t", "o", "m", "l">> :> "TOML"
       @@ <<"i", "n", "i">> :> "INI"
       @@ <<"e", "n", "v">> :> "Environment"
       @@ <<"m", "d">> :> "Markdown"
       @@ <<"m", "d", "x">> :> "MDX"
       @@ <<"r", "s", "t">> :> "reStructuredText"
       @@ <<"t", "x", "t">> :> "Text"
       @@ <<"s", "q", "l">> :> "SQL"
       @@ <<"d", "o", "c", "k", "e", "r", "f", "i", "l", "e">> :> "Dockerfile"
       @@ <<"r">> :> "R"
       @@ <<"s", "c", "a", "l", "a">> :> "Scala"
       @@ <<"c", "l", "j">> :> "Clojure"
       @@ <<"e", "x">> :> "Elixir"
       @@ <<"e", "x", "s">> :> "Elixir"
       @@ <<"e", "r", "l">> :> "Erlang"
       @@ <<"h", "r", "l">> :> "Erlang"
       @@ <<"l", "u", "a">> :> "Lua"
       @@ <<"p", "l">> :> "Perl"
       @@ <<"p", "m">> :> "Perl"
       @@ <<"v", "i", "m">> :> "Vim Script"
       @@ <<"a", "s", "m">> :> "Assembly"
       @@ <<"s">> :> "Assembly"

\* what a lookup on a plain object finds for a key that is no own property
\* but a property of Object.prototype (the keys that can be a lower-case
\* extension), as the property key the value becomes in filesByExtension:
\* the Object function and Object.prototype itself
InheritedProperties ==
       <<"c", "o", "n", "s", "t", "r", "u", "c", "t", "o", "r">> :> "function Object() { [native code] }"
    @@ <<"_", "_", "p", "r", "o", "t", "o", "_", "_">> :> "[object Object]"

\* is languageMapping[extension] truthy
HasMapping(extension) ==
    extension \in DOMAIN languageMapping \cup DOMAIN InheritedProperties

\* languageMapping[extension] as a key of filesByExtension
MappingOf(extension) ==
    IF extension \in DOMAIN languageMapping THEN languageMapping[extension]
    ELSE InheritedProperties[extension]

\* the extension analyzeBranchLanguages gives a file
LanguageExtension(file) ==
    LET fileName == toLowerCase(file.path)
    IN IF fileName = <<"d", "o", "c", "k", "e", "r", "f", "i", "l", "e">> \/ startsWith(fileName, <<"d", "o", "c", "k", "e", "r", "f", "i", "l", "e", ".">>)
       THEN <<"d", "o", "c", "k", "e", "r", "f", "i", "l", "e">>
       ELSE IF IncludesChar(fileName, ".") THEN LastPart(fileName, ".")
       ELSE <<>>

\* Math.round(num / den) for num >= 0, den > 0
MathRound(num, den) == (2 * num + den) \div (2 * den)

\* the function for a tree that getRepositoryTree returned
analyzeBranchLanguages(items) ==
    LET blobFiles == BlobsOf(items)
        Counted(file) ==
            /\ LanguageExtension(file) # <<>>
            /\ HasMapping(LanguageExtension(file))
        found == {MappingOf(LanguageExtension(blobFiles[k])) :
                     k \in {j \in 1..Len(blobFiles) : Counted(blobFiles[j])}}
        filesByExtension ==
            [language \in found |->
                LET Speaks(file) ==
                        /\ Counted(file)
                        /\ MappingOf(LanguageExtension(file)) = language
                    chosen == SelectSeq(blobFiles, Speaks)
                IN [k \in 1..Len(chosen) |-> chosen[k].path]]
        totalFiles == Len(blobFiles)
    IN [languages |->
            [language \in found |->
                [count |-> Len(filesByExtension[language]),
                 percentage |->
                    IF totalFiles > 0
                    THEN MathRound(Len(filesByExtension[language]) * 100,
                                   totalFiles)
                    ELSE 0]],
        totalFiles |-> totalFiles,
        filesByExtension |-> filesByExtension]

NoLanguages ==
    [languages |-> <<>>, totalFiles |-> 0, filesByExtension |-> <<>>]

(* analyzeProjectStructure and determineProjectType *)

FullStackApplication == <<"pul", "seu", "taeg", " ", "web", " ", "ae", "peul", "ri", "ke", "i", "syeon">>

FrontendSpa == <<"peu", "ron", "teu", "en", "deu", " ", "S", "P", "A", " ", "(", "S", "i", "n", "g", "l", "e", " ", "P", "a", "g", "e", " ", "A", "p", "p", "l", "i", "c", "a", "t", "i", "o", "n", ")">>

FrontendOnlyApplication == <<"peu", "ron", "teu", "en", "deu", " ", "jeon", "yong", " ", "ae", "peul", "ri", "ke", "i", "syeon">>

NodeBackendApi == <<"N", "o", "d", "e", ".", "j", "s", " ", "baeg", "en", "deu", " ", "A", "P", "I">>

PythonBackendApi == <<"P", "y", "t", "h", "o", "n", " ", "baeg", "en", "deu", " ", "A", "P", "I">>

GoBackendApi == <<"G", "o", " ", "baeg", "en", "deu", " ", "A", "P", "I">>

BackendApiServer == <<"baeg", "en", "deu", " ", "A", "P", "I", " ", "seo", "beo">>

LibraryProject == <<"ra", "i", "beu", "reo", "ri", "/", "yu", "til", "ri", "ti", " ", "peu", "ro", "jeg", "teu">>

frontendFolders ==
    { <<"s", "r", "c", "/", "c", "o", "m", "p", "o", "n", "e", "n", "t", "s">>, <<"s", "r", "c", "/", "p", "a", "g", "e", "s">>, <<"p", "u", "b", "l", "i", "c">>, <<"s", "t", "a", "t", "i", "c">>, <<"a", "s", "s", "e", "t", "s">>, <<"s", "t", "y", "l", "e", "s">>,
      <<"c", "s", "s">> }

backendFolders ==
    { <<"s", "r", "c", "/", "r", "o", "u", "t", "e", "s">>, <<"s", "r", "c", "/", "c", "o", "n", "t", "r", "o", "l", "l", "e", "r", "s">>, <<"s", "r", "c", "/", "s", "e", "r", "v", "i", "c", "e", "s">>, <<"s", "r", "c", "/", "m", "o", "d", "e", "l", "s">>, <<"a", "p", "i">>,
      <<"s", "e", "r", "v", "e", "r">>, <<"b", "a", "c", "k", "e", "n", "d">> }

frontendExts ==
    { <<"j", "s", "x">>, <<"t", "s", "x">>, <<"v", "u", "e">>, <<"s", "v", "e", "l", "t", "e">>, <<"h", "t", "m", "l">>, <<"c", "s", "s">>, <<"s", "c", "s", "s">>, <<"s", "a", "s", "s">>, <<"l", "e", "s", "s">> }

backendPatterns ==
    { <<"c", "o", "n", "t", "r", "o", "l", "l", "e", "r">>, <<"s", "e", "r", "v", "i", "c", "e">>, <<"m", "o", "d", "e", "l">>, <<"r", "o", "u", "t", "e">>, <<"m", "i", "d", "d", "l", "e", "w", "a", "r", "e">>, <<"h", "a", "n", "d", "l", "e", "r">> }

importantPatterns ==
    { <<"p", "a", "c", "k", "a", "g", "e", ".", "j", "s", "o", "n">>, <<"r", "e", "q", "u", "i", "r", "e", "m", "e", "n", "t", "s", ".", "t", "x", "t">>, <<"D", "o", "c", "k", "e", "r", "f", "i", "l", "e">>, <<"R", "E", "A", "D", "M", "E">>,
      <<"t", "s", "c", "o", "n", "f", "i", "g", ".", "j", "s", "o", "n">>, <<"w", "e", "b", "p", "a", "c", "k", ".", "c", "o", "n", "f", "i", "g">>, <<"v", "i", "t", "e", ".", "c", "o", "n", "f", "i", "g">>, <<"n", "e", "x", "t", ".", "c", "o", "n", "f", "i", "g">>,
      <<"d", "o", "c", "k", "e", "r", "-", "c", "o", "m", "p", "o", "s", "e">>, <<"M", "a", "k", "e", "f", "i", "l", "e">>, <<"g", "o", ".", "m", "o", "d">>, <<"C", "a", "r", "g", "o", ".", "t", "o", "m", "l">>, <<"p", "o", "m", ".", "x", "m", "l">> }

\* the names determineProjectType takes for a frontend build tool
frontendBuildTools ==
    { <<"v", "i", "t", "e", ".", "c", "o", "n", "f", "i", "g">>, <<"w", "e", "b", "p", "a", "c", "k", ".", "c", "o", "n", "f", "i", "g">>, <<"n", "e", "x", "t", ".", "c", "o", "n", "f", "i", "g">>, <<"n", "u", "x", "t", ".", "c", "o", "n", "f", "i", "g">>,
      <<"v", "u", "e", ".", "c", "o", "n", "f", "i", "g">> }

AnyIncludes(s, patterns) ==
    LET text == s IN \E pattern \in patterns : IncludesLiteral(text, pattern)

\* item.path.split(".").pop()?.toLowerCase()
ExtOf(item) == toLowerCase(LastPart(item.path, "."))

\* what one item adds to frontendIndicators
FrontendIndicatorsOf(item) ==
    IF item.type = "tree"
    THEN IF AnyIncludes(toLowerCase(item.path), frontendFolders)
         THEN {<<"folder", item.path>>} ELSE {}
    ELSE IF item.type = "blob" /\ ExtOf(item) # <<>> /\ ExtOf(item) \in frontendExts
    THEN {<<"file", ExtOf(item)>>}
    ELSE {}

\* what one item adds to backendIndicators
BackendIndicatorsOf(item) ==
    IF item.type = "tree"
    THEN IF AnyIncludes(toLowerCase(item.path), backendFolders)
         THEN {<<"folder", item.path>>} ELSE {}
    ELSE IF /\ item.type = "blob"
            /\ ExtOf(item) # <<>>
            /\ AnyIncludes(toLowerCase(item.path), backendPatterns)
    THEN {<<"file", ExtOf(item), toLowerCase(item.path)>>}
    ELSE {}

\* is the item added to importantFiles and configFiles
IsConfigFile(item) ==
    /\ item.type = "blob"
    /\ \E pattern \in importantPatterns :
           IncludesLiteral(toLowerCase(item.path), toLowerCase(pattern))

hasFrontend(frontendIndicators, fileExtensions) ==
    \/ frontendIndicators # {}
    \/ \E ext \in {<<"j", "s", "x">>, <<"t", "s", "x">>, <<"v", "u", "e">>, <<"h", "t", "m", "l">>, <<"c", "s", "s">>, <<"s", "c", "s", "s">>, <<"s", "a", "s", "s">>} :
           ext \in DOMAIN fileExtensions

hasBackend(backendIndicators, fileExtensions, configFiles) ==
    \/ backendIndicators # {}
    \/ \E file \in configFiles :
           AnyIncludes(toLowerCase(file),
                       {<<"s", "e", "r", "v", "e", "r">>, <<"a", "p", "i">>, <<"e", "x", "p", "r", "e", "s", "s">>, <<"f", "a", "s", "t", "i", "f", "y">>, <<"k", "o", "a">>})
    \/ \E ext \in {<<"p", "y">>, <<"g", "o">>, <<"j", "a", "v", "a">>, <<"r", "s">>, <<"p", "h", "p">>, <<"r", "b">>} :
           ext \in DOMAIN fileExtensions

\* the branch !hasFrontend && hasBackend
BackendType(configFiles) ==
    IF \E file \in configFiles : IncludesLiteral(file, <<"p", "a", "c", "k", "a", "g", "e", ".", "j", "s", "o", "n">>)
    THEN NodeBackendApi
    ELSE IF \E file \in configFiles : IncludesLiteral(file, <<"r", "e", "q", "u", "i", "r", "e", "m", "e", "n", "t", "s", ".", "t", "x", "t">>)
    THEN PythonBackendApi
    ELSE IF \E file \in configFiles : IncludesLiteral(file, <<"g", "o", ".", "m", "o", "d">>)
    THEN GoBackendApi
    ELSE BackendApiServer

determineProjectType(frontendIndicators, backendIndicators, fileExtensions, configFiles) ==
    LET frontend == hasFrontend(frontendIndicators, fileExtensions)
        backend == hasBackend(backendIndicators, fileExtensions, configFiles)
        hasFrontendBuildTools ==
            \E file \in configFiles : AnyIncludes(file, frontendBuildTools)
    IN IF frontend /\ backend THEN FullStackApplication
       ELSE IF frontend /\ ~backend
       THEN IF hasFrontendBuildTools THEN FrontendSpa
            ELSE FrontendOnlyApplication
       ELSE IF ~frontend /\ backend THEN BackendType(configFiles)
       ELSE LibraryProject

\* the sets and the map analyzeProjectStructure collects and the project type
\* its text reports
analyzeProjectStructure(items) ==
    LET at == DOMAIN items
        frontendIndicators == UNION {FrontendIndicatorsOf(items[k]) : k \in at}
        backendIndicators == UNION {BackendIndicatorsOf(items[k]) : k \in at}
        withExt == {k \in at : items[k].type = "blob" /\ ExtOf(items[k]) # <<>>}
        fileExtensions ==
            [ext \in {ExtOf(items[k]) : k \in withExt} |->
                Cardinality({k \in withExt : ExtOf(items[k]) = ext})]
        configFiles == {items[k].path : k \in {j \in at : IsConfigFile(items[j])}}
    IN [frontendIndicators |-> frontendIndicators,
        backendIndicators |-> backendIndicators,
        fileExtensions |-> fileExtensions,
        configFiles |-> configFiles,
        projectType |->
            determineProjectType(frontendIndicators, backendIndicators,
                                 fileExtensions, configFiles),
        totalFiles |-> Len(BlobsOf(items))]

NoStructure ==
    [frontendIndicators |-> {}, backendIndicators |-> {},
     fileExtensions |-> <<>>, configFiles |-> {}, projectType |-> <<>>,
     totalFiles |-> 0]

(* the files handed to the analysis *)

\* the canonical configuration filenames of getImportantFiles
importantFileNames ==
    { <<"p", "a", "c", "k", "a", "g", "e", ".", "j", "s", "o", "n">>, <<"p", "a", "c", "k", "a", "g", "e", "-", "l", "o", "c", "k", ".", "j", "s", "o", "n">>, <<"y", "a", "r", "n", ".", "l", "o", "c", "k">>, <<"r", "e", "q", "u", "i", "r", "e", "m", "e", "n", "t", "s", ".", "t", "x", "t">>,
      <<"P", "i", "p", "f", "i", "l", "e">>, <<"G", "e", "m", "f", "i", "l", "e">>, <<"p", "o", "m", ".", "x", "m", "l">>, <<"b", "u", "i", "l", "d", ".", "g", "r", "a", "d", "l", "e">>, <<"C", "a", "r", "g", "o", ".", "t", "o", "m", "l">>, <<"g", "o", ".", "m", "o", "d">>,
      <<"c", "o", "m", "p", "o", "s", "e", "r", ".", "j", "s", "o", "n">>, <<"D", "o", "c", "k", "e", "r", "f", "i", "l", "e">>, <<"d", "o", "c", "k", "e", "r", "-", "c", "o", "m", "p", "o", "s", "e", ".", "y", "m", "l">>, <<"d", "o", "c", "k", "e", "r", "-", "c", "o", "m", "p", "o", "s", "e", ".", "y", "a", "m", "l">>,
      <<".", "e", "n", "v", ".", "e", "x", "a", "m", "p", "l", "e">>, <<"t", "s", "c", "o", "n", "f", "i", "g", ".", "j", "s", "o", "n">>, <<"w", "e", "b", "p", "a", "c", "k", ".", "c", "o", "n", "f", "i", "g", ".", "j", "s">>, <<"v", "i", "t", "e", ".", "c", "o", "n", "f", "i", "g", ".", "j", "s">>,
      <<"n", "e", "x", "t", ".", "c", "o", "n", "f", "i", "g", ".", "j", "s">>, <<"t", "a", "i", "l", "w", "i", "n", "d", ".", "c", "o", "n", "f", "i", "g", ".", "j", "s">>, <<".", "e", "s", "l", "i", "n", "t", "r", "c", ".", "j", "s">>, <<".", "e", "s", "l", "i", "n", "t", "r", "c", ".", "j", "s", "o", "n">>,
      <<"j", "e", "s", "t", ".", "c", "o", "n", "f", "i", "g", ".", "j", "s">>, <<"c", "y", "p", "r", "e", "s", "s", ".", "c", "o", "n", "f", "i", "g", ".", "j", "s">> }

\* foundFiles.slice(0, 10)
MaxImportantFiles == 10

\* the filter of getImportantFiles
IsImportantFile(item) ==
    /\ item.type = "blob"
    /\ LET path == toLowerCase(item.path)
       IN \E important \in importantFileNames :
              IncludesLiteral(path, toLowerCase(important))

\* mutant of FilesForAnalysis: every blob of the tree is handed on
FilesForAnalysisWholeTree(relevant, fetched) == BlobsOf(tree)

\* the keys of importantFiles after the batch loop of the route: the relevant
\* files whose promise resolved to { path, content }
FilesForAnalysis(relevant, fetched) ==
    LET Fetched(item) == item.path \in fetched
    IN SelectSeq(relevant, Fetched)

(* the trees *)

SeedItems ==
    << Folder(<<"p", "u", "b", "l", "i", "c">>), Folder(<<"s", "r", "c", "/", "r", "o", "u", "t", "e", "s">>), Folder(<<"l", "i", "b">>),
       Submodule(<<"t", "h", "i", "r", "d", "_", "p", "a", "r", "t", "y", "/", "s", "d", "k">>),
       Blob(<<"a", "p", "p", ".", "p", "y">>), Blob(<<"r", "e", "q", "u", "i", "r", "e", "m", "e", "n", "t", "s", ".", "t", "x", "t">>), Blob(<<"p", "a", "c", "k", "a", "g", "e", ".", "j", "s", "o", "n">>),
       Blob(<<"g", "o", ".", "m", "o", "d">>), Blob(<<"m", "a", "i", "n", ".", "g", "o">>), Blob(<<"A", "p", "p", ".", "v", "u", "e">>),
       Blob(<<"v", "u", "e", ".", "c", "o", "n", "f", "i", "g", ".", "j", "s">>), Blob(<<"v", "i", "t", "e", ".", "c", "o", "n", "f", "i", "g", ".", "t", "s">>), Blob(<<"i", "n", "d", "e", "x", ".", "j", "s">>),
       Blob(<<"F", "o", "o", ".", "c", "o", "n", "s", "t", "r", "u", "c", "t", "o", "r">>), Blob(<<"D", "o", "c", "k", "e", "r", "f", "i", "l", "e">>), Blob(<<"l", "o", "g", "o", ".", "P", "N", "G">>) >>

\* the trees made of at most MaxTreeItems of the seed items
SeedTrees ==
    {[k \in 1..Cardinality(S) |-> SeedItems[SortedSeq(S)[k]]] :
        S \in {T \in SUBSET DOMAIN SeedItems : Cardinality(T) <= MaxTreeItems}}

PathPrefixes == { <<>>, <<"s", "r", "c", "/">>, <<"m", "y">> }

PathSegments ==
    { <<>>, <<"n", "o", "d", "e", "_", "m", "o", "d", "u", "l", "e", "s", "/">>, <<"V", "e", "n", "d", "o", "r", "/">>, <<"d", "i", "s", "t", "/">>, <<".", "g", "i", "t", "/">>, <<"l", "i", "b", "/">> }

PathNames ==
    { <<"i", "n", "d", "e", "x", ".", "j", "s">>, <<"l", "o", "g", "o", ".", "P", "N", "G">>, <<"a", "r", "c", "h", "i", "v", "e", ".", "t", "a", "r", ".", "g", "z">>, <<"y", "a", "r", "n", ".", "l", "o", "c", "k">>, <<"R", "E", "A", "D", "M", "E">>,
      <<"a", "p", "p", ".", "p", "y">>, <<"M", "a", "i", "n", ".", "c", "l", "a", "s", "s">>, <<"n", "o", "t", "e", "s", ".", "m", "d">> }

\* the trees of one file whose path is a prefix, a directory and a name
SingleFileTrees ==
    {<<Blob(prefix \o segment \o name)>> :
        prefix \in PathPrefixes, segment \in PathSegments, name \in PathNames}

TreeAnalyzeLanguages ==
    /\ tpc = "languages"
    /\ branchLanguages' = analyzeBranchLanguages(tree)
    /\ tpc' = "filter"
    /\ UNCHANGED <<tree, relevantFiles, importantFiles, structure>>
    /\ UNCHANGED notTree

TreeFilterRelevant ==
    /\ tpc = "filter"
    /\ relevantFiles' = SelectSeq(tree, IsRelevantFile)
    /\ tpc' = "fetch"
    /\ UNCHANGED <<tree, branchLanguages, importantFiles, structure>>
    /\ UNCHANGED notTree

\* the batches are fetched: every relevant file whose fetch gave a content
\* (not empty, under the size ceiling) becomes a key of importantFiles, which
\* generateEnhancedRepositorySummary hands to analyzeTechStackFromFiles
TreeFetchFiles ==
    /\ tpc = "fetch"
    /\ \E fetched \in SUBSET {relevantFiles[k].path : k \in DOMAIN relevantFiles} :
          importantFiles' = FilesForAnalysis(relevantFiles, fetched)
    /\ tpc' = "structure"
    /\ UNCHANGED <<tree, branchLanguages, relevantFiles, structure>>
    /\ UNCHANGED notTree

TreeAnalyzeStructure ==
    /\ tpc = "structure"
    /\ structure' = analyzeProjectStructure(tree)
    /\ tpc' = "done"
    /\ UNCHANGED <<tree, branchLanguages, relevantFiles, importantFiles>>
    /\ UNCHANGED notTree

TreeIdle ==
    /\ tree = <<>>
    /\ tpc = "idle"
    /\ branchLanguages = NoLanguages
    /\ relevantFiles = <<>>
    /\ importantFiles = <<>>
    /\ structure = NoStructure

TreeInit ==
    /\ tree \in SeedTrees \cup SingleFileTrees
    /\ tpc = "languages"
    /\ branchLanguages = NoLanguages
    /\ relevantFiles = <<>>
    /\ importantFiles = <<>>
    /\ structure = NoStructure

TreeNext ==
    \/ TreeAnalyzeLanguages
    \/ TreeFilterRelevant
    \/ TreeFetchFiles
    \/ TreeAnalyzeStructure

----------------------------------------------------------------------------
(* Specifications *)

InitStore ==
    StoreInit /\ FetchIdle /\ VcsIdle /\ DetectIdle /\ ExtractIdle /\ RunIdle
    /\ TreeIdle

SpecStore == InitStore /\ [][StoreNext]_vars

InitFetch ==
    FetchInit /\ StoreInit /\ VcsIdle /\ DetectIdle /\ ExtractIdle /\ RunIdle
    /\ TreeIdle

SpecFetch == InitFetch /\ [][FetchNext]_vars

InitVcs ==
    VcsInit /\ StoreInit /\ FetchIdle /\ DetectIdle /\ ExtractIdle /\ RunIdle
    /\ TreeIdle

SpecVcs == InitVcs /\ [][VcsNext]_vars

InitDetect ==
    DetectInit /\ StoreInit /\ FetchIdle /\ VcsIdle /\ ExtractIdle /\ RunIdle
    /\ TreeIdle

SpecDetect == InitDetect /\ [][DetectNext]_vars

InitExtract ==
    ExtractInit /\ StoreInit /\ FetchIdle /\ VcsIdle /\ DetectIdle /\ RunIdle
    /\ TreeIdle

SpecExtract == InitExtract /\ [][ExtractNext]_vars

InitRun ==
    RunIdle /\ StoreInit /\ FetchIdle /\ VcsIdle /\ DetectIdle /\ ExtractIdle
    /\ TreeIdle

SpecRun == InitRun /\ [][RunNext]_vars

InitTree ==
    TreeInit /\ StoreInit /\ FetchIdle /\ VcsIdle /\ DetectIdle /\ ExtractIdle
    /\ RunIdle

SpecTree == InitTree /\ [][TreeNext]_vars

----------------------------------------------------------------------------
(* Properties of the SummaryStore *)

StoredRows(k) ==
    {r \in repository_summaries : r.repository_id = k[1] /\ r.branch_name = k[2]}

RowContent(r) ==
    <<r.project_intro, r.tech_stack, r.refactoring_history,
      r.collaboration_flow, r.resume_bullets>>

DraftContent(d) ==
    <<d.project_intro, d.tech_stack, d.refactoring_history,
      d.collaboration_flow, d.resume_bullets>>

\* C1: after any sequence of successful upserts the store holds at most one
\* record per (repositoryId, branchName); a key never upserted has none, and
\* the record of an upserted key carries the content of the draft passed to
\* the most recent successful upsert of that key.
C1_OneRowPerKeyHoldingLatestDraft ==
    \A k \in Keys :
        /\ Cardinality(StoredRows(k)) <= 1
        /\ upserts[k] = <<>> => StoredRows(k) = {}
        /\ upserts[k] # <<>> =>
              \E r \in StoredRows(k) :
                  RowContent(r) = DraftContent(upserts[k][Len(upserts[k])])

\* C1 witness: one key was upserted twice with different drafts and its
\* single record holds the second draft.
C1_Witness_TwoUpsertsSameKey ==
    \E k \in Keys :
        /\ Len(upserts[k]) = 2
        /\ upserts[k][1] # upserts[k][2]
        /\ \E r \in StoredRows(k) :
              /\ RowContent(r) = DraftContent(upserts[k][2])
              /\ r.updated_at > r.created_at

\* the callers overlapped: each began before the upsert of the other executed
Overlapped(c1, c2) ==
    /\ call[c1].pc = "returned"
    /\ call[c2].pc = "returned"
    /\ call[c1].startedAt <= call[c2].upsertedAt
    /\ call[c2].startedAt <= call[c1].upsertedAt

KeyOf(c) == <<call[c].repositoryId, call[c].branchName>>

\* C12: when two runs of the same (repositoryId, branchName) overlapped, the
\* store has exactly one record for the key, and every field of it is the
\* field of the draft of the run whose upsert executed last.
C12_OverlappingRunsLeaveLastDraftWhole ==
    \A c1, c2 \in Callers :
        (c1 # c2 /\ Overlapped(c1, c2) /\ KeyOf(c1) = KeyOf(c2)
         /\ call[c1].upsertedAt < call[c2].upsertedAt) =>
            /\ Cardinality(StoredRows(KeyOf(c2))) = 1
            /\ \A r \in StoredRows(KeyOf(c2)) :
                  /\ RowContent(r) = DraftContent(DraftOf(c2))
                  /\ r.id = call[c1].id
                  /\ r.id = call[c2].id

\* C12 witness: both runs began at clock 0, before either upsert, on the same
\* key; run2 upserted first, run1 last, and the record is run1's draft.
C12_Witness_BothBeganBeforeEitherUpsert ==
    /\ Overlapped("run1", "run2")
    /\ KeyOf("run1") = KeyOf("run2")
    /\ call["run1"].startedAt = 0
    /\ call["run2"].startedAt = 0
    /\ call["run2"].upsertedAt < call["run1"].upsertedAt
    /\ \E r \in StoredRows(KeyOf("run1")) : RowContent(r) = DraftContent(DraftA)

\* C13: a step that upserts under one key leaves the records stored under
\* every other key as they were.
C13_UpsertLeavesOtherKeysUnchanged ==
    [][\A k \in Keys :
          upserts'[k] = upserts[k] => StoredRows(k)' = StoredRows(k)]_vars

\* C13 witness: a record of one branch was stored, then another branch of the
\* same repository was upserted by the other run, and the first record still
\* holds its draft and its timestamps.
C13_Witness_SecondBranchUpsertedLater ==
    \E r1, r2 \in repository_summaries :
        /\ r1.repository_id = r2.repository_id
        /\ r1.branch_name # r2.branch_name
        /\ r1.created_at < r2.created_at
        /\ r1.updated_at <= r1.created_at
        /\ RowContent(r1) # RowContent(r2)
        /\ Len(upserts[<<r1.repository_id, r1.branch_name>>]) = 1
        /\ RowContent(r1) =
              DraftContent(upserts[<<r1.repository_id, r1.branch_name>>][1])

\* C5 (as claimed): a saveRepositorySummary call for a repositoryId that is
\* no row of "repositories" ends by throwing a "Repository not found" error,
\* and no record exists for that repositoryId.
C5_Claim_MissingRepositoryFailsNotFound ==
    \A c \in Callers :
        (/\ call[c].pc \in {"returned", "thrown"}
         /\ call[c].repositoryId \notin {r.id : r \in repositories})
        => /\ call[c].pc = "thrown"
           /\ call[c].error = "Repository not found"
           /\ \A r \in repository_summaries :
                 r.repository_id # call[c].repositoryId

----------------------------------------------------------------------------
(* Properties of the BatchedContentFetcher *)

NumBatches == (Len(limitedPaths) + batchSize - 1) \div batchSize

\* the batch (1-based) a path of limitedPaths belongs to
BatchNoOf(path) ==
    ((CHOOSE k \in 1..Len(limitedPaths) : limitedPaths[k] = path) - 1)
        \div batchSize + 1

\* a response that carries the non-empty content of a file within the
\* size ceiling (the service skips a size over 1 MB, the route a length of
\* 200000 or more)
Accepted(v, resp) ==
    /\ resp.ok
    /\ resp.type = "file"
    /\ resp.size > 0
    /\ IF v = "service" THEN resp.size <= ServiceSizeCeiling
       ELSE resp.size < RouteSizeCeiling

\* C2: the fetcher never has more than batchSize fetch operations in
\* flight, whatever the length of the input list.
C2_InFlightAtMostBatchSize ==
    Cardinality(inFlight) <= batchSize

\* C2 witness: a list longer than one batch, whose second batch is in
\* flight with exactly batchSize fetches.
C2_Witness_FullSecondBatchInFlight ==
    /\ Len(limitedPaths) > batchSize
    /\ issued = 2
    /\ Cardinality(inFlight) = batchSize

\* C7: batches run strictly one after the other: the fetches in flight all
\* belong to the batch issued last, every fetch of the earlier batches has
\* resolved and each earlier batch was followed by its delay before the next
\* batch was issued; at the end a delay has followed every batch but the
\* last.
C7_BatchesSequentialDelayBetween ==
    /\ \A path \in inFlight : BatchNoOf(path) = issued
    /\ fpc \in {"await", "delay"} =>
          /\ delays = issued - 1
          /\ \A k \in 1..Len(limitedPaths) :
                (k - 1) \div batchSize + 1 < issued
                    => limitedPaths[k] \in DOMAIN responses
    /\ fpc = "delay" => inFlight = {} /\ issued < NumBatches
    /\ fpc = "done" =>
          /\ issued = NumBatches
          /\ delays = IF NumBatches = 0 THEN 0 ELSE NumBatches - 1

\* C7 witness: a run of at least three batches has ended, with a delay
\* after each batch but the last.
C7_Witness_ThreeBatchesTwoDelays ==
    /\ fpc = "done"
    /\ issued >= 3
    /\ delays = issued - 1

FetchedPaths == DOMAIN responses \cup inFlight

\* C26 as stated: the number of fetch operations issued in one call never
\* exceeds the maximum file count.
C26_Claim_FetchesNeverExceedMaximum ==
    Cardinality(FetchedPaths) <= maxFiles

\* C26 amended: getMultipleFileContents issues fetches only for the first
\* maxFiles paths of its list, so never more than maxFiles; the batch loop
\* of the summary route has no maximum: it issues fetches for paths of its
\* list only and, when it returns, has issued one for every path of it.
C26_OnlyTheServiceCapsItsFetches ==
    /\ FetchedPaths \subseteq Range(filePaths)
    /\ variant = "service" =>
          /\ FetchedPaths \subseteq Range(Slice(filePaths, 0, maxFiles))
          /\ Cardinality(FetchedPaths) <= maxFiles
    /\ (variant = "route" /\ fpc = "done") => FetchedPaths = Range(filePaths)

\* C26 witness: getMultipleFileContents returned for a list of five paths
\* and a maximum of three, having fetched the first three paths.
C26_Witness_FivePathsThreeFetched ==
    /\ variant = "service"
    /\ fpc = "done"
    /\ Len(filePaths) = 5
    /\ maxFiles = 3
    /\ DOMAIN responses = Range(SubSeq(filePaths, 1, 3))

\* the map that a set of fetch outcomes stands for: the accepted responses,
\* each under its own path
OutcomeMap(v, outcomes) ==
    [path \in {q \in DOMAIN outcomes : Accepted(v, outcomes[q])} |->
        LET content == [of |-> path, length |-> outcomes[path].size] IN
        IF v = "service"
        THEN [content |-> content, size |-> outcomes[path].size,
              language |-> getLanguageFromExtension(path)]
        ELSE content]

\* C29: the assembled map depends on the outcomes of the fetches only, not
\* on the order in which they completed: whenever no batch is being awaited
\* the map is the one the outcomes received so far stand for, and its keys
\* are the keys inserted.
C29_MapDependsOnOutcomesOnly ==
    fpc \in {"loop", "delay", "done"} =>
        /\ results = OutcomeMap(variant, responses)
        /\ Range(resultKeys) = DOMAIN results
        /\ Len(resultKeys) = Cardinality(DOMAIN results)

\* C29 witness: the two fetches of one batch completed in the reverse of the
\* order of the list (the second path's entry was inserted first) and the
\* returned map holds both files, each under its own path.
C29_Witness_BatchCompletedInReverseOrder ==
    /\ variant = "service"
    /\ fpc = "done"
    /\ Len(filePaths) >= 2
    /\ maxFiles >= 2
    /\ resultKeys = <<filePaths[2], filePaths[1]>>
    /\ results[filePaths[1]].content.of = filePaths[1]
    /\ results[filePaths[2]].content.of = filePaths[2]

----------------------------------------------------------------------------
(* Properties of the ref-scoped VCS calls *)

MainCallDone ==
    vcall.pc = "done" /\ vcall.ref = "main" /\ vcall.kind \in FallbackKinds

\* C3 (as claimed): for a call against "main", if the request for "main"
\* fails and the one for "master" succeeds the call succeeds with the data
\* of "master" after exactly one retry; if both fail the call fails after
\* exactly one retry; never more than two requests.
C3_Claim_OneRetryThenSucceedOrFail ==
    MainCallDone =>
        /\ Len(vcall.requests) <= 2
        /\ world["main"] # "ok" /\ world["master"] = "ok" =>
              /\ vcall.requests = <<"main", "master">>
              /\ vcall.result = [status |-> "ok",
                                 data |-> DataOf(vcall.kind, "master")]
        /\ world["main"] # "ok" /\ world["master"] # "ok" =>
              /\ vcall.requests = <<"main", "master">>
              /\ vcall.result.status = "error"

\* whether the failure of the request for "main" is one the call retries:
\* any failure for README, contents and commits, an answered (error status)
\* request for the tree
Retried(kind) ==
    world["main"] # "ok" /\ (kind = "tree" => world["main"] # "network")

\* C3 (amended): a call against "main" issues at most two requests.  When
\* the request for "main" fails (for the tree: is answered with an error
\* status) exactly one retry against "master" is made: if it succeeds the
\* call succeeds with the data of "master"; if it fails too, contents,
\* commits and tree fail, and README returns the empty text.  A tree request
\* that fails without an answer is not retried and the call fails.
C3_OneRetryReadmeEmptyOnDoubleFailure ==
    /\ vcall.pc # "idle" => Len(vcall.requests) <= 2
    /\ MainCallDone =>
          /\ Retried(vcall.kind) => vcall.requests = <<"main", "master">>
          /\ ~Retried(vcall.kind) => vcall.requests = <<"main">>
          /\ Retried(vcall.kind) /\ world["master"] = "ok" =>
                vcall.result = [status |-> "ok",
                                data |-> DataOf(vcall.kind, "master")]
          /\ Retried(vcall.kind) /\ world["master"] # "ok" =>
                IF vcall.kind = "readme"
                THEN vcall.result = [status |-> "ok", data |-> ""]
                ELSE vcall.result.status = "error"
          /\ world["main"] # "ok" /\ ~Retried(vcall.kind) =>
                vcall.result.status = "error"

\* C3 witness: the request for "main" failed, the retry against "master"
\* succeeded and the call returned the data of "master".
C3_Witness_MasterDataAfterOneRetry ==
    /\ MainCallDone
    /\ world["main"] = "notfound"
    /\ vcall.requests = <<"main", "master">>
    /\ vcall.result = [status |-> "ok", data |-> DataOf(vcall.kind, "master")]

\* C11: a request for "master" is issued only if the primary ref is "main"
\* and the request for it failed with not-found; a failure on any other ref,
\* or a failure of another kind (forbidden, network) on "main", ends the
\* call after exactly one request with that failure.
C11_Claim_FallbackOnlyOnNotFoundOfMain ==
    (vcall.pc = "done" /\ vcall.kind \in {"contents", "commits", "tree"}) =>
        /\ Len(vcall.requests) = 2 =>
              vcall.ref = "main" /\ world["main"] = "notfound"
        /\ (world[vcall.ref] # "ok"
            /\ ~(vcall.ref = "main" /\ world["main"] = "notfound")) =>
              /\ vcall.requests = <<vcall.ref>>
              /\ vcall.result.status = "error"

\* C15: getFileContent called with ref "main", when the request for "main"
\* fails with not-found, retries exactly once against "master" and returns
\* the content at "master" if the retry succeeds.
C15_Claim_FileContentFallsBack ==
    (/\ vcall.pc = "done"
     /\ vcall.kind \in FileKinds
     /\ vcall.ref = "main"
     /\ world["main"] = "notfound")
    => /\ vcall.requests = <<"main", "master">>
       /\ world["master"] = "ok" =>
             vcall.result = [status |-> "ok", data |-> DataOf(vcall.kind, "master")]

----------------------------------------------------------------------------
(* Properties of the TechStackDetector *)

\* C6: every technology listed in a category of the returned profile is also
\* a member of the profile's `detected` list.
C6_Claim_CategoryEntriesAreDetected ==
    dpc = "returned" =>
        \A c \in Categories : Range(techStack[c]) \subseteq Range(techStack.detected)

\* the input has a package.json that parses and whose dependencies name
\* both react and express
HasReactAndExpress(file) ==
    /\ includes(file.path, "package.json")
    /\ file.content.kind = "json"
    /\ {"react", "express"} \subseteq Range(file.content.dependencies)

\* C19: for an input with a package.json whose dependencies include react
\* and express the returned profile has "React" in frontend, "Express.js" in
\* backend and both in detected, whatever else the input holds.
C19_ReactAndExpressAreDetected ==
    (dpc = "returned" /\ \E k \in DOMAIN files : HasReactAndExpress(files[k])) =>
        /\ "React" \in Range(techStack.frontend)
        /\ "Express.js" \in Range(techStack.backend)
        /\ {"React", "Express.js"} \subseteq Range(techStack.detected)

\* C19 witness: the package.json also names react-dom and prisma and has
\* devDependencies, a second package.json does not parse, and four other
\* files are present; React and Express.js are in the profile once each.
C19_Witness_AmongOtherFilesAndDependencies ==
    /\ dpc = "returned"
    /\ Len(files) = 6
    /\ HasReactAndExpress(files[1])
    /\ Range(files[1].content.dependencies) =
          {"react", "react-dom", "express", "prisma"}
    /\ files[1].content.devDependencies = <<"mongoose", "react">>
    /\ files[2].content = Malformed
    /\ techStack.frontend = <<"React">>
    /\ techStack.backend[1] = "Express.js"
    /\ "Django" \in Range(techStack.backend)

\* the input without its k-th entry
WithoutEntry(fs, k) == SubSeq(fs, 1, k - 1) \o SubSeq(fs, k + 1, Len(fs))

\* C28: the scan of an input with a malformed configuration file returns,
\* and the returned profile is the profile of the same input without that
\* file.
C28_MalformedFileIsSkippedAlone ==
    /\ dpc \in {"scan", "returned"}
    /\ dpc = "scan" => fileIdx <= Len(files) + 1
    /\ dpc = "returned" =>
          \A k \in DOMAIN files : ParseThrows(files[k]) =>
              techStack = analyzeTechStackFromFiles(WithoutEntry(files, k))

\* C28 witness: the second package.json of the input does not parse, the
\* first one and the files after it were analysed, and the profile holds
\* what they give.
C28_Witness_UnparsablePackageBetweenOthers ==
    /\ dpc = "returned"
    /\ Len(files) >= 3
    /\ ~ParseThrows(files[1])
    /\ ParseThrows(files[2])
    /\ techStack.frontend = <<"React">>
    /\ "Django" \in Range(techStack.backend)

----------------------------------------------------------------------------
(* Properties of the SectionExtractor *)

TextFields == {"project_intro", "refactoring_history", "collaboration_flow"}

\* C4: for every non-empty completion text the returned draft has at least
\* one non-empty text field and at least one resume bullet.
C4_Claim_DraftHasTextFieldAndBullet ==
    (xpc = "returned" /\ aiText # <<>>) =>
        /\ \E f \in TextFields : extracted[f] # <<>>
        /\ Len(extracted.resume_bullets) >= 1

\* C9: every technology in the draft's frontend, backend, database, devops
\* and testing categories is a member of the same category of the detected
\* profile, whatever the completion text says.
C9_CategoriesComeFromDetectedProfile ==
    \A c \in Categories :
        Range(extracted.tech_stack[c]) \subseteq Range(techStackFromFiles[c])

\* a text whose tech-stack section names Angular was extracted against a
\* profile that detected React, and the draft lists React only
C9_Witness_TextNamesOtherTechnology ==
    /\ xpc = "returned"
    /\ \E k \in 1..Len(processed) : processed[k] = "tech_stack"
    /\ IncludesLiteral(aiText, <<"A", "n", "g", "u", "l", "a", "r">>)
    /\ techStackFromFiles.frontend = <<"React">>
    /\ extracted.tech_stack.frontend = <<"React">>
    /\ extracted.tech_stack.database = <<"Prisma ORM">>

ActiveAt(k) ==
    LET above == {j \in 1..(k - 1) : HeadingOf(lines[j]) > 0}
    IN IF above = {} THEN ""
       ELSE HeadingPatterns[HeadingOf(lines[CHOOSE j \in above : \A m \in above : m <= j])].section

\* line k is no heading line and no other line of the text reads the same
ContentLine(k) ==
    /\ ~StartsWithHashes(lines[k])
    /\ \A j \in DOMAIN lines : lines[j] = lines[k] => j = k

\* C21: when the pass has returned, every non-heading line read while a text
\* field F was active is part of F's text and of no other text field's, and
\* a line read before the first recognised heading is part of no text field.
C21_Claim_LinesGoToActiveFieldOnly ==
    xpc = "returned" =>
        \A k \in DOMAIN lines : ContentLine(k) =>
            \A f \in TextFields :
                IncludesLiteral(extracted[f], lines[k]) <=> ActiveAt(k) = f

\* a line "### <achievement> N: <title>" and its title
IsAchievementLine(line) == AchievementEnd(line, 1) > 0

AchievementTitle(line) == Trim(SubSeq(line, AchievementEnd(line, 1) + 1, Len(line)))

\* heading 7 is line p and the rest of the text is its section: sub-heading
\* lines, each followed by at least one content line
AchievementSectionAt(p) ==
    /\ HeadingOf(lines[p]) = 7
    /\ p < Len(lines)
    /\ IsAchievementLine(lines[p + 1])
    /\ \A j \in (p + 1)..Len(lines) :
          IF IsAchievementLine(lines[j])
          THEN j < Len(lines) /\ ~StartsWithHashes(lines[j + 1])
          ELSE ~StartsWithHashes(lines[j])

\* the sub-heading lines below line p, in order
AchievementLinesBelow(p) ==
    LET Below(j) == j > p /\ IsAchievementLine(lines[j])
    IN SelectSeq([j \in 1..Len(lines) |-> j], Below)

\* the bullet the section of sub-heading line j stands for: its title and the
\* content lines down to the next sub-heading
AchievementBulletAt(j) ==
    LET Mine(m) == /\ m > j
                   /\ \A n \in (j + 1)..m : ~IsAchievementLine(lines[n])
        mine == SelectSeq([m \in 1..Len(lines) |-> m], Mine)
    IN Bullet(AchievementTitle(lines[j]),
              JoinWith([m \in 1..Len(mine) |-> lines[mine[m]]], <<" ">>))

\* C22: a resume section made of k "### <achievement> n: <title>" lines, each
\* followed by content lines, is extracted as exactly k bullets, the i-th
\* with the i-th title and its content.
C22_Claim_OneBulletPerAchievementHeading ==
    xpc = "returned" =>
        \A p \in DOMAIN lines : AchievementSectionAt(p) =>
            LET subs == AchievementLinesBelow(p)
            IN extracted.resume_bullets =
                  [n \in 1..Len(subs) |-> AchievementBulletAt(subs[n])]

\* the heading that opens section f occurs in the text
HeadingFound(f) ==
    \E k \in DOMAIN lines :
        HeadingOf(lines[k]) > 0 /\ HeadingPatterns[HeadingOf(lines[k])].section = f

\* content.substring(0, 500)
RawPrefix == Substring0(aiText, 500)

\* C23: when the extraction has returned, every text field whose heading
\* does not occur in the response is non-empty and holds the first 500
\* characters of the raw response.
C23_Claim_MissingFieldsHoldRawPrefix ==
    xpc = "returned" =>
        \A f \in TextFields : ~HeadingFound(f) =>
            /\ extracted[f] # <<>>
            /\ extracted[f] = RawPrefix

\* the line that closes the section opened by heading line p: the next
\* recognised heading, or one past the end of the text
SectionEnd(p) ==
    LET below == {j \in (p + 1)..Len(lines) : HeadingOf(lines[j]) > 0}
    IN IF below = {} THEN Len(lines) + 1
       ELSE CHOOSE j \in below : \A m \in below : j <= m

\* the text that follows heading line p: its collected lines, joined
SectionText(p) ==
    LET Mine(j) == p < j /\ j < SectionEnd(p) /\ ~StartsWithHashes(lines[j])
        mine == SelectSeq([j \in 1..Len(lines) |-> j], Mine)
    IN Trim(JoinWith([m \in 1..Len(mine) |-> lines[mine[m]]], <<" ">>))

\* the resume section opened by heading line p has been handed to
\* processSection and nothing has been written to the bullets since
ResumeSectionFlushed(p) ==
    /\ HeadingOf(lines[p]) = 7
    /\ SectionText(p) # <<>>
    /\ \A j \in (p + 1)..Len(lines) : HeadingOf(lines[j]) # 7
    /\ \/ xpc = "parse" /\ lineIdx > SectionEnd(p)
       \/ xpc = "returned" /\ "fallback" \notin Range(processed)

\* the bullets made of a list of strings
BulletsOf(list) == [k \in 1..Len(list) |-> BulletOf(list[k], k - 1)]

\* the output of the first tier, in the order 1 to 4, that yields anything;
\* the whole text as the single bullet if none does
FirstYieldingTier(c) ==
    IF AchievementBullets(c) # <<>> THEN AchievementBullets(c)
    ELSE IF GlyphChunks(c) # <<>> THEN BulletsOf(GlyphChunks(c))
    ELSE IF ColonBullets(c) # <<>> THEN BulletsOf(ColonBullets(c))
    ELSE IF SentenceChunks(c) # <<>> THEN BulletsOf(SentenceChunks(c))
    ELSE BulletsOf(<<c>>)

\* the one tier after the first that the shape of the text selects
SelectedTier(c) ==
    IF \E g \in BulletGlyphs : IncludesChar(c, g) THEN 2
    ELSE IF Len(ColonSections(c)) > 1 THEN 3
    ELSE 4

TierOutput(k, c) ==
    CASE k = 2 -> GlyphChunks(c)
      [] k = 3 -> ColonBullets(c)
      [] k = 4 -> SentenceChunks(c)

\* C24 as stated: the bullets of a resume section are the output of the
\* first of the four tiers, tried in order, that yields a non-empty list;
\* the single last-resort bullet is used only when all four yield nothing.
C24_Claim_FirstYieldingTierWins ==
    \A p \in DOMAIN lines : ResumeSectionFlushed(p) =>
        extracted.resume_bullets = FirstYieldingTier(SectionText(p))

\* C24 amended: tier 1 is tried first; when it yields nothing exactly one of
\* the tiers 2, 3, 4 is tried, selected by the text (a bullet glyph in it:
\* tier 2; else more than one colon-delimited part: tier 3; else tier 4),
\* and when that tier yields nothing the whole text is the single bullet.
C24_OneTierSelectedByTextShape ==
    \A p \in DOMAIN lines : ResumeSectionFlushed(p) =>
        LET c == SectionText(p)
            chunks == TierOutput(SelectedTier(c), c)
        IN extracted.resume_bullets =
              IF AchievementBullets(c) # <<>> THEN AchievementBullets(c)
              ELSE IF chunks # <<>> THEN BulletsOf(chunks)
              ELSE BulletsOf(<<c>>)

\* C24 witness: a resume section without glyph whose colon tier yields
\* nothing although its sentence tier would yield two chunks was flushed,
\* and the draft holds the whole text as one bullet.
C24_Witness_ColonTierEmptySentencesNotTried ==
    \E p \in DOMAIN lines :
        /\ ResumeSectionFlushed(p)
        /\ SelectedTier(SectionText(p)) = 3
        /\ ColonBullets(SectionText(p)) = <<>>
        /\ Len(SentenceChunks(SectionText(p))) = 2
        /\ Len(extracted.resume_bullets) = 1
        /\ extracted.resume_bullets[1].title = <<"A", "P", "I">>

\* no section heading occurs twice in the text
HeadingsOccurOnce ==
    \A j, k \in DOMAIN lines :
        (HeadingOf(lines[j]) > 0 /\ HeadingOf(lines[j]) = HeadingOf(lines[k])) => j = k

\* C25: whatever the order of the section headings in the response, each
\* text field whose heading occurs followed by text is returned with the
\* text that follows its own heading, the last section of the input included.
C25_Claim_EachFieldGetsTextUnderItsHeading ==
    (xpc = "returned" /\ HeadingsOccurOnce) =>
        \A p \in DOMAIN lines :
            \A f \in TextFields :
                (/\ HeadingOf(lines[p]) > 0
                 /\ HeadingPatterns[HeadingOf(lines[p])].section = f
                 /\ SectionText(p) # <<>>) => extracted[f] = SectionText(p)

----------------------------------------------------------------------------
(* Properties of the analysis run *)

\* C8: a run that failed, at whatever step, has written nothing: both tables
\* are exactly as they were when the run started; and a run that succeeded
\* has persisted its draft in full.
C8_Claim_FailedRunWritesNothing ==
    /\ run.pc = "failed" =>
          /\ repositories = run.before.repositories
          /\ repository_summaries = run.before.repository_summaries
    /\ run.pc = "succeeded" =>
          \E r \in StoredRows(<<run.repositoryId, run.ref>>) :
              RowContent(r) = DraftContent(run.summary)

C30_Claim_EveryReadNamesTheStoredRef ==
    run.pc # "idle" =>
        /\ \A read \in run.reads : read.ref = run.ref
        /\ run.pc = "succeeded" =>
              /\ run.summary.branch_name = run.ref
              /\ \E row \in repository_summaries :
                    /\ row.repository_id = run.repositoryId
                    /\ row.branch_name = run.ref

----------------------------------------------------------------------------
(* Properties of the repository tree *)

TreeBlobPaths == {tree[k].path : k \in {j \in DOMAIN tree : tree[j].type = "blob"}}

PresentIn(paths, name) == \E path \in paths : IncludesLiteral(path, name)

\* C16: the project type follows the decision table, in this order: frontend
\* and backend -> full-stack; frontend only -> SPA when a frontend build-tool
\* configuration file is in the tree, else frontend-only; backend only ->
\* Node API with a package.json, else Python API with a requirements.txt,
\* else Go API with a go.mod; neither -> library/utility.  A tree of only
\* .py files and a requirements.txt is a Python backend API.
C16_Claim_ProjectTypeDecisionTable ==
    tpc = "done" =>
        LET frontend ==
                hasFrontend(structure.frontendIndicators, structure.fileExtensions)
            backend ==
                hasBackend(structure.backendIndicators, structure.fileExtensions,
                           structure.configFiles)
            buildTool ==
                \E name \in frontendBuildTools : PresentIn(TreeBlobPaths, name)
            onlyPython ==
                /\ \A k \in DOMAIN tree :
                       /\ tree[k].type = "blob"
                       /\ \/ endsWith(tree[k].path, <<".", "p", "y">>)
                          \/ tree[k].path = <<"r", "e", "q", "u", "i", "r", "e", "m", "e", "n", "t", "s", ".", "t", "x", "t">>
                /\ \E path \in TreeBlobPaths : endsWith(path, <<".", "p", "y">>)
                /\ <<"r", "e", "q", "u", "i", "r", "e", "m", "e", "n", "t", "s", ".", "t", "x", "t">> \in TreeBlobPaths
        IN /\ (frontend /\ backend) =>
                 structure.projectType = FullStackApplication
           /\ (frontend /\ ~backend /\ buildTool) =>
                 structure.projectType = FrontendSpa
           /\ (frontend /\ ~backend /\ ~buildTool) =>
                 structure.projectType = FrontendOnlyApplication
           /\ (~frontend /\ backend /\ PresentIn(TreeBlobPaths, <<"p", "a", "c", "k", "a", "g", "e", ".", "j", "s", "o", "n">>)) =>
                 structure.projectType = NodeBackendApi
           /\ (/\ ~frontend /\ backend
               /\ ~PresentIn(TreeBlobPaths, <<"p", "a", "c", "k", "a", "g", "e", ".", "j", "s", "o", "n">>)
               /\ PresentIn(TreeBlobPaths, <<"r", "e", "q", "u", "i", "r", "e", "m", "e", "n", "t", "s", ".", "t", "x", "t">>)) =>
                 structure.projectType = PythonBackendApi
           /\ (/\ ~frontend /\ backend
               /\ ~PresentIn(TreeBlobPaths, <<"p", "a", "c", "k", "a", "g", "e", ".", "j", "s", "o", "n">>)
               /\ ~PresentIn(TreeBlobPaths, <<"r", "e", "q", "u", "i", "r", "e", "m", "e", "n", "t", "s", ".", "t", "x", "t">>)
               /\ PresentIn(TreeBlobPaths, <<"g", "o", ".", "m", "o", "d">>)) =>
                 structure.projectType = GoBackendApi
           /\ (~frontend /\ ~backend) =>
                 structure.projectType = LibraryProject
           /\ onlyPython => structure.projectType = PythonBackendApi

\* the path has a vendor, dependency or build directory of the filter's list
HasExcludedDirectory(path) ==
    LET lower == toLowerCase(path)
    IN \E pattern \in excludeLibraryPatterns : IncludesLiteral(lower, pattern)

\* the path ends in "." and a binary or media extension of the filter's list
HasExcludedExtension(path) ==
    LET lower == toLowerCase(path)
    IN \E extension \in excludeExtensions :
           endsWith(lower, <<".">> \o extension)

Kept(path) == \E k \in DOMAIN relevantFiles : relevantFiles[k].path = path

\* C17: a file whose path has a vendor, dependency or build directory of the
\* list, or ends in a binary or media extension of the list, is not selected
\* for analysis, whatever the rest of its path is.
C17_ExcludedPathsAreNotSelected ==
    tpc \in {"fetch", "structure", "done"} =>
        \A path \in TreeBlobPaths :
            (HasExcludedDirectory(path) \/ HasExcludedExtension(path)) =>
                ~Kept(path)

\* C17 witness: the filter has run on a source file below a directory of the
\* list that follows other text, and on a file with a media extension in
\* capitals; neither is selected, while another tree's source file is.
C17_Witness_VendoredSourceFileDropped ==
    /\ tpc = "done"
    /\ tree = <<Blob(<<"m", "y", "n", "o", "d", "e", "_", "m", "o", "d", "u", "l", "e", "s", "/", "a", "p", "p", ".", "p", "y">>)>>
    /\ relevantFiles = <<>>

\* C18: for a tree with at least one file every percentage is an integer in
\* 0..100 and every reported language is a value of the extension table; for
\* a tree without files the result is empty.
C18_Claim_PercentagesAndLanguagesOfTable ==
    tpc \in {"filter", "fetch", "structure", "done"} =>
        LET report == branchLanguages.languages
        IN /\ Len(BlobsOf(tree)) >= 1 =>
                 \A language \in DOMAIN report :
                     /\ report[language].percentage \in 0..100
                     /\ language \in Range(languageMapping)
           /\ Len(BlobsOf(tree)) = 0 =>
                 /\ DOMAIN report = {}
                 /\ branchLanguages.totalFiles = 0


====
